---- MODULE Spec2Model ----
(***************************************************************************)
(* A model of the Scrypted Cloud plugin (src/unnamed/part_000, classes     *)
(* ScryptedCloud and ScryptedPush).                                        *)
(*                                                                         *)
(* Values:                                                                 *)
(*   - a string setting that is not set (undefined or '') is "";           *)
(*   - a number setting that is not set (undefined) is 0: the code tests   *)
(*     both with the same falsy test (!upnpPort, !hostname);               *)
(*   - alerts are the messages posted with this.log.a(), a set.            *)
(***************************************************************************)
EXTENDS Naturals, Integers, Sequences, FiniteSets, TLC

VARIABLES
    values,          \* this.storageSettings.values (the persisted settings)
    cloudflareTunnel,\* this.cloudflareTunnel: the tunnel URL's host, "" when undefined
    cloudflared,     \* where startCloudflared() stands, and its start attempts
    alerts,          \* the alerts posted with this.log.a() and not cleared
    authority,       \* the outcome of the last getAuthority() call
    registrationId,  \* what this.manager.registrationId resolves to
    upnpStatus,      \* this.upnpStatus
    reregisterTimer, \* this.reregisterTimer is set
    timers,          \* the setTimeout callbacks of scheduleRefreshPortForward not yet run
    procs,           \* the asynchronous calls in progress, each at its suspension point
    started,         \* how many calls were started from outside (timers, events, buttons)
    regOutcome,      \* the outcome of the last sendRegistrationId call that completed
    upfPrev,         \* the last updatePortForward call, if it ran alone and nothing
                     \* else happened since (NoCall otherwise)
    uncaught,        \* the calls whose promise was rejected: no caller awaits the
                     \* promise of a call started by a timer or an event
    externalAddresses, \* the addresses last given to setExternalAddresses()
    debounce,        \* the bookkeeping of scheduleRefreshPortForward's bursts
    mapFailed,       \* a UPnP mapping request has failed and the 30 minute interval
                     \* has started no refresh cycle since
    mapped,          \* the public ports whose UPnP mapping request has succeeded
    reverseConnections, \* this.reverseConnections: how many of its connections are
                     \* unclaimed, how many are claimed
    callback,        \* the 'callback' messages of the relay and their mux connections
    poolLast,        \* the last event of the reverse connection pool
    clients,         \* the createReverseConnection() calls that are followed one by
                     \* one: where each stands, and what was written to its socket
    locals,          \* how many connections to the local server were opened
    whitelisted,     \* this.whitelisted: the URL cached for each local path
    conversions,     \* the whitelist() calls that await the relay's scope call
    lastConv,        \* the last conversion that returned or threw
    boot,            \* how far the startup the constructor began has come
    thermostat,      \* the thermostat plugin's device (ThermostatMixin) and the
                     \* heater and cooler it commands
    randomBytes,     \* this.randomBytes
    tests,           \* the testPortForward() calls in progress
    lastResponse,    \* the last request that onRequest() answered, and the answer
    testOutcome      \* how the last testPortForward() call ended

settingVars == <<values, alerts, authority, registrationId, upnpStatus>>
tunnelVars == <<cloudflareTunnel, cloudflared>>
timerVars == <<reregisterTimer, timers, debounce, mapFailed, mapped>>
procVars == <<procs, started, regOutcome, upfPrev, uncaught, externalAddresses>>
controllerVars == <<settingVars, tunnelVars, timerVars, procVars>>
poolVars == <<reverseConnections, callback, poolLast>>
whitelistVars == <<whitelisted, conversions, lastConv>>
testVars == <<randomBytes, tests, lastResponse, testOutcome>>
reverseVars == <<clients, locals>>
startupVars == <<boot>>
thermostatVars == <<thermostat>>
otherVars == <<poolVars, whitelistVars, testVars, reverseVars, startupVars,
               thermostatVars>>
nonPoolVars == <<controllerVars, whitelistVars, testVars, reverseVars, startupVars,
                 thermostatVars>>
nonWhitelistVars == <<controllerVars, poolVars, testVars, reverseVars, startupVars,
                      thermostatVars>>
vars == <<controllerVars, otherVars>>

(***************************************************************************)
(* The domains the settings are drawn from.                                *)
(***************************************************************************)
MaxProcs == 2
MaxOps == 2
MaxPuts == 2
MaxAttempts == 11
MaxCallbacks == 2
MaxConversions == 2
MaxTests == 2
MaxLines == 2

ForwardingModes == {"UPNP", "Router Forward", "Custom Domain", "Disabled"}
HTTPS_PORT == 443
Hostnames == {"", "cam.example.com"}
DuckTokens == {"", "ducktoken"}
DuckHostnames == {"", "my.duckdns.org"}
Ports == {0, HTTPS_PORT, 40000, 59999}
RegistrationIds == {"r1", "r2"}

TUNNEL_HOST == "tunnel.trycloudflare.com"
TunnelHosts == {"", TUNNEL_HOST}
RelayIps == {"198.51.100.7", "203.0.113.9"}

\* this.securePort, the port the TLS listener got: the configured one, or any free
\* port, which can be the very port a refresh cycle chooses.
LISTEN_PORT == 10443
SecurePorts == {LISTEN_PORT, 40000}

\* The settings a getAuthority() call depends on, in every combination.
Settings ==
    [forwardingMode : ForwardingModes,
     hostname : Hostnames,
     duckDnsToken : DuckTokens,
     duckDnsHostname : DuckHostnames,
     upnpPort : Ports,
     token_info : {""},
     connectHomeScryptedApp : {TRUE},
     lastPersistedRegistrationId : {""},
     lastPersistedUpnpPort : {0},
     lastPersistedIp : {""},
     cloudflareEnabled : {TRUE},
     cloudflaredTunnelToken : {""},
     duckDnsCertValid : {FALSE},
     securePort : {LISTEN_PORT}]

(***************************************************************************)
(* getAuthority().  The outcome is a record: threw says whether the call   *)
(* threw, error is the message it posted as an alert and threw, has_port   *)
(* says whether the returned object carries upnp_port/port (the Disabled   *)
(* mode returns {}), hostname is "" when the returned object has none.     *)
(***************************************************************************)
Threw(msg) ==
    [threw |-> TRUE, error |-> msg, has_port |-> FALSE, upnp_port |-> 0, hostname |-> ""]

Returned(has_port, upnp_port, hostname) ==
    [threw |-> FALSE, error |-> "", has_port |-> has_port, upnp_port |-> upnp_port,
     hostname |-> hostname]

\* authority before any getAuthority() call.
NoAuthority == [threw |-> FALSE, error |-> "not called", has_port |-> FALSE,
                upnp_port |-> 0, hostname |-> ""]

\* getAuthority() without its test of port 443.
getAuthority_NoCheck(v) ==
    IF v.forwardingMode = "Disabled"
    THEN Returned(FALSE, 0, "")
    ELSE Returned(TRUE,
                  IF v.forwardingMode = "Custom Domain" THEN HTTPS_PORT ELSE v.upnpPort,
                  IF v.forwardingMode = "Custom Domain"
                  THEN v.hostname
                  ELSE IF v.duckDnsToken # "" THEN v.duckDnsHostname ELSE "")

\* getAuthority() with the configured port in the Disabled mode.
getAuthority_DisabledPort(v) ==
    IF v.forwardingMode = "Disabled"
    THEN Returned(TRUE, v.upnpPort, "")
    ELSE getAuthority_NoCheck(v)

getAuthority(v) ==
    IF v.forwardingMode = "Disabled"
    THEN Returned(FALSE, 0, "")
    ELSE
        LET upnp_port == IF v.forwardingMode = "Custom Domain" THEN HTTPS_PORT ELSE v.upnpPort
            hostname == IF v.forwardingMode = "Custom Domain"
                        THEN v.hostname
                        ELSE IF v.duckDnsToken # "" THEN v.duckDnsHostname ELSE ""
        IN  IF upnp_port = HTTPS_PORT /\ hostname = ""
            THEN Threw(IF v.forwardingMode = "Custom Domain"
                       THEN "Hostname is required for port Custom Domain setup."
                       ELSE "Port 443 requires Custom Domain configuration.")
            ELSE Returned(TRUE, upnp_port, hostname)

\* The alerts after a getAuthority() call: the message is posted (this.log.a) before
\* it is thrown.
\* getAuthority() without its this.log.a() call.
getAuthorityAlerts_Silent(v, a) == a

getAuthorityAlerts(v, a) ==
    IF getAuthority(v).threw THEN a \cup {getAuthority(v).error} ELSE a

(***************************************************************************)
(* The asynchronous calls.  A call in progress is a record at one of the   *)
(* suspension points of the code:                                          *)
(*   rpf_addr   refreshPortForward awaits endpointManager.getLocalAddresses *)
(*   rpf_map    refreshPortForward awaits the portMapping callback         *)
(*   upf_duck   updatePortForward awaits the Duck DNS update               *)
(*   upf_ip     updatePortForward awaits GET /_punch/ip                    *)
(*   upf_regid  updatePortForward awaits this.manager.registrationId       *)
(*   reg_wait   sendRegistrationId awaits GET /_punch/register             *)
(*   upf_after  updatePortForward resumes after sendRegistrationId         *)
(* root is the call the record began as (rpf, upf, reg), op the call it is *)
(* in, port the local variable upnpPort, private the private port of the   *)
(* portMapping request the call made, ip the local ip, regId and authPort  *)
(* the registration id and authority.upnp_port of the request, data the    *)
(* relay's ip_address.                                                     *)
(* requests and registered count the call's relay requests, alone says     *)
(* that no other call ran while this one did.                              *)
(***************************************************************************)
Procs == 1..MaxProcs

Idle == [pc |-> "idle", op |-> "", root |-> "", port |-> 0, private |-> 0, ip |-> "",
         regId |-> "", authPort |-> 0, data |-> "", requests |-> 0, registered |-> FALSE,
         alone |-> FALSE]

\* tick alternates between 0 and 1 each time the record is written, so that every
\* completed call changes it.
NoCall == [port |-> 0, ip |-> "", authority |-> NoAuthority, requests |-> 0,
           registered |-> FALSE, valid |-> FALSE, tick |-> 0]

NoOutcome == [result |-> "none", cause |-> "", requested |-> FALSE, alerted |-> FALSE,
              regId |-> "", port |-> 0, tick |-> 0]

Outcome(result, cause, requested, alerted, regId, port) ==
    [result |-> result, cause |-> cause, requested |-> requested, alerted |-> alerted,
     regId |-> regId, port |-> port, tick |-> 0]

Ended(r) == r.pc \in {"resolved", "rejected"}

FreeSlot(i) == /\ procs[i].pc = "idle"
               /\ \A j \in Procs : j < i => procs[j].pc # "idle"

OthersIdle(i) == \A j \in Procs \ {i} : procs[j].pc = "idle"

\* The other calls in progress are no longer alone once call i begins.
Disturbed(i) ==
    [j \in Procs |-> IF j = i THEN procs[j] ELSE [procs[j] EXCEPT !.alone = FALSE]]

Begin(i, op) == [Idle EXCEPT !.op = op, !.root = op, !.alone = OthersIdle(i)]

\* What the synchronous code of a step leaves: the call's record r, the settings v,
\* the alerts a, the status s, and the outcome o of the sendRegistrationId call that
\* completed in the step (NoOutcome when none did).
Res(r, v, a, s, o) == [r |-> r, v |-> v, a |-> a, s |-> s, o |-> o]

At(r, pc) == [r EXCEPT !.pc = pc]

(***************************************************************************)
(* sendRegistrationId(registration_id), up to its await of the relay call. *)
(***************************************************************************)
LOGIN_ALERT == "Login to the Scrypted Cloud plugin to reach this server from the cloud"
RELAY_ERROR_ALERT == "registration error"

\* sendRegistrationId() without its test of the bearer token.
sendRegistrationId_NoTokenTest(r, v, a, s, id) ==
    LET auth == getAuthority(v) IN
    IF auth.threw
    THEN Res(At(r, "rejected"), v, getAuthorityAlerts(v, a), s,
             Outcome("threw", "authority", FALSE, TRUE, id, 0))
    ELSE IF ~v.connectHomeScryptedApp
    THEN Res(At(r, "resolved"), v, a, s,
             Outcome("error", "disabled", FALSE, FALSE, id, auth.upnp_port))
    ELSE Res([r EXCEPT !.pc = "reg_wait", !.regId = id, !.authPort = auth.upnp_port,
                       !.requests = r.requests + 1],
             v, a, s, NoOutcome)

sendRegistrationId(r, v, a, s, id) ==
    LET auth == getAuthority(v) IN
    IF auth.threw
    THEN Res(At(r, "rejected"), v, getAuthorityAlerts(v, a), s,
             Outcome("threw", "authority", FALSE, TRUE, id, 0))
    ELSE IF ~v.connectHomeScryptedApp
    THEN Res(At(r, "resolved"), v, a, s,
             Outcome("error", "disabled", FALSE, FALSE, id, auth.upnp_port))
    ELSE IF v.token_info = ""
    THEN Res(At(r, "resolved"), v, a \cup {LOGIN_ALERT}, s,
             Outcome("error", "not logged in", FALSE, TRUE, id, auth.upnp_port))
    ELSE Res([r EXCEPT !.pc = "reg_wait", !.regId = id, !.authPort = auth.upnp_port,
                       !.requests = r.requests + 1],
             v, a, s, NoOutcome)

(***************************************************************************)
(* The relay's answer to GET /_punch/register: the call failed ("failed"), *)
(* the body carries an error ("error"), or it carries the ip_address the   *)
(* relay saw.                                                              *)
(***************************************************************************)
RegisterResponses == {"failed", "error"} \cup RelayIps

\* The port persisted is the configured one, not the one of the request.
PersistRegistration_ConfiguredPort(v, r) ==
    [v EXCEPT !.lastPersistedRegistrationId = r.regId, !.lastPersistedUpnpPort = v.upnpPort]

PersistRegistration(v, r) ==
    [v EXCEPT !.lastPersistedRegistrationId = r.regId, !.lastPersistedUpnpPort = r.authPort]

sendRegistrationIdResponse(r, v, a, s, resp) ==
    IF resp = "failed"
    THEN Res(At(r, "resolved"), v, a, s,
             Outcome("error", "fetch failed", TRUE, FALSE, r.regId, r.authPort))
    ELSE IF resp = "error"
    THEN Res(At(r, "resolved"), v, a \cup {RELAY_ERROR_ALERT}, s,
             Outcome("error", "relay error", TRUE, TRUE, r.regId, r.authPort))
    ELSE Res(IF r.op = "reg"
             THEN [r EXCEPT !.pc = "resolved", !.registered = TRUE]
             ELSE [r EXCEPT !.pc = "upf_after", !.registered = TRUE, !.data = resp],
             PersistRegistration(v, r), a, s,
             Outcome("ok", "", TRUE, FALSE, r.regId, r.authPort))

(***************************************************************************)
(* updatePortForward(upnpPort).                                            *)
(***************************************************************************)
MISMATCH_ALERT == "Scrypted Cloud could not verify the IP Address of your custom domain"

\* Lines 405-414: the port is forced to 443, and the registration is sent when the
\* pair differs from the persisted one.
updatePortForwardCompare(r, v, a, s, upnpPort, ip) ==
    LET port == IF v.forwardingMode = "Custom Domain" \/ cloudflareTunnel # ""
                THEN HTTPS_PORT ELSE upnpPort
        r1 == [r EXCEPT !.port = port, !.ip = ip]
    IN  IF v.lastPersistedUpnpPort # port \/ ip # v.lastPersistedIp
        THEN Res(At(r1, "upf_regid"), v, a, s, NoOutcome)
        ELSE Res(At(r1, "resolved"), v, a, s, NoOutcome)

\* Lines 349-403: up to the first await.
updatePortForward(r, v, a, s, upnpPort) ==
    LET v1 == [v EXCEPT !.upnpPort = upnpPort]
        r1 == [r EXCEPT !.op = "upf", !.port = upnpPort]
    IN  IF v1.forwardingMode = "Custom Domain"
        THEN IF v1.hostname = ""
             THEN Res(At(r1, "rejected"), v1, a, s, NoOutcome)
             ELSE updatePortForwardCompare(r1, v1, a, s, upnpPort, v1.hostname)
        ELSE IF v1.duckDnsHostname # "" /\ v1.duckDnsToken # ""
        THEN Res(At(r1, "upf_duck"), v1, a, s, NoOutcome)
        ELSE IF cloudflareTunnel = ""
        THEN Res(At(r1, "upf_ip"), v1, a, s, NoOutcome)
        ELSE updatePortForwardCompare(r1, v1, a, s, upnpPort, cloudflareTunnel)

\* Lines 395-403: GET /_punch/ip answered with ip, or failed.
updatePortForwardIp(r, v, a, s, resp) ==
    IF resp = "failed"
    THEN Res(At(r, "rejected"), v, a, s, NoOutcome)
    ELSE updatePortForwardCompare(r, v, a, s, r.port,
                                  IF cloudflareTunnel # "" THEN cloudflareTunnel ELSE resp)

\* A mismatch ends the call before lastPersistedIp is written.
updatePortForwardAfter_Aborts(r, v, a, s) ==
    IF r.ip # "localhost" /\ r.ip # r.data /\ r.ip # cloudflareTunnel
    THEN Res(At(r, "resolved"), v, a \cup {MISMATCH_ALERT}, s, NoOutcome)
    ELSE Res(At(r, "resolved"), [v EXCEPT !.lastPersistedIp = r.ip], a, s, NoOutcome)

\* The confirmation also writes the registered port back to the upnpPort setting.
updatePortForwardAfter_WritesPort(r, v, a, s) ==
    Res(At(r, "resolved"),
        [v EXCEPT !.lastPersistedIp = r.ip, !.upnpPort = r.port],
        IF r.ip # "localhost" /\ r.ip # r.data /\ r.ip # cloudflareTunnel
        THEN a \cup {MISMATCH_ALERT} ELSE a,
        s, NoOutcome)

\* Lines 416-421: after sendRegistrationId returned a body without error.
updatePortForwardAfter(r, v, a, s) ==
    Res(At(r, "resolved"),
        [v EXCEPT !.lastPersistedIp = r.ip],
        IF r.ip # "localhost" /\ r.ip # r.data /\ r.ip # cloudflareTunnel
        THEN a \cup {MISMATCH_ALERT} ELSE a,
        s, NoOutcome)

(***************************************************************************)
(* refreshPortForward().  random is what                                   *)
(* Math.round(Math.random() * 20000 + 40000) gave.                         *)
(***************************************************************************)
PORT_443_ALERT == "Scrypted Cloud does not allow usage of port 443"
NO_ADDRESS_ALERT == "UPNP Port Reservation failed. Scrypted Server Address is not configured"
UPNP_FAILED_ALERT == "UPNP Port Reservation failed. Enable UPNP on your router"

\* refreshPortForward() without the test of the Router Forward mode at line 476.
refreshPortForward_NoRouterTest(r, v, a, s, random) ==
    LET upnpPort == IF v.upnpPort = 0 THEN random ELSE v.upnpPort IN
    IF v.forwardingMode = "Disabled"
    THEN updatePortForward(r, v, a, s, upnpPort)
    ELSE IF upnpPort = HTTPS_PORT
    THEN Res(At(r, "resolved"), v, a \cup {PORT_443_ALERT}, "Error: Port 443 Not Allowed",
             NoOutcome)
    ELSE IF v.forwardingMode = "Custom Domain"
    THEN updatePortForward(r, v, a, s, v.upnpPort)
    ELSE Res([r EXCEPT !.pc = "rpf_addr", !.port = upnpPort], v, a, s, NoOutcome)

\* Lines 456-480: up to the first await.
refreshPortForward(r, v, a, s, random) ==
    LET upnpPort == IF v.upnpPort = 0 THEN random ELSE v.upnpPort IN
    IF v.forwardingMode = "Disabled"
    THEN updatePortForward(r, v, a, s, upnpPort)
    ELSE IF upnpPort = HTTPS_PORT
    THEN Res(At(r, "resolved"), v, a \cup {PORT_443_ALERT}, "Error: Port 443 Not Allowed",
             NoOutcome)
    ELSE IF v.forwardingMode = "Router Forward"
    THEN updatePortForward(r, v, a, s, upnpPort)
    ELSE IF v.forwardingMode = "Custom Domain"
    THEN updatePortForward(r, v, a, s, v.upnpPort)
    ELSE Res([r EXCEPT !.pc = "rpf_addr", !.port = upnpPort], v, a, s, NoOutcome)

\* The private port of the portMapping request is the chosen port.
refreshPortForwardAddress_SamePort(r, v, a, s, localAddress) ==
    IF ~localAddress
    THEN Res(At(r, "resolved"), v, a \cup {NO_ADDRESS_ALERT}, s, NoOutcome)
    ELSE Res([r EXCEPT !.pc = "rpf_map", !.private = r.port], v, a, s, NoOutcome)

\* Lines 482-496: the local addresses are known (or there is none), and portMapping
\* is called with public port upnpPort and private port this.securePort.
refreshPortForwardAddress(r, v, a, s, localAddress) ==
    IF ~localAddress
    THEN Res(At(r, "resolved"), v, a \cup {NO_ADDRESS_ALERT}, s, NoOutcome)
    ELSE Res([r EXCEPT !.pc = "rpf_map", !.private = v.securePort], v, a, s, NoOutcome)

\* Lines 497-515: the portMapping callback.
\* The callback asks for the local addresses and the mapping again when it failed.
refreshPortForwardMapped_Retry(r, v, a, s, err) ==
    IF err
    THEN Res(At(r, "rpf_addr"), v, a \cup {UPNP_FAILED_ALERT}, "Error: See Console", NoOutcome)
    ELSE updatePortForward(r, v, a, "Active", r.port)

\* The callback goes on to updatePortForward() whether or not the request failed.
refreshPortForwardMapped_Always(r, v, a, s, err) ==
    updatePortForward(r, v, IF err THEN a \cup {UPNP_FAILED_ALERT} ELSE a,
                      IF err THEN "Error: See Console" ELSE "Active", r.port)

refreshPortForwardMapped(r, v, a, s, err) ==
    IF err
    THEN Res(At(r, "resolved"), v, a \cup {UPNP_FAILED_ALERT}, "Error: See Console", NoOutcome)
    ELSE updatePortForward(r, v, a, "Active", r.port)

(***************************************************************************)
(* A step of call i, which leaves res.  A call that ended frees its slot.  *)
(* An updatePortForward call that resolved and ran alone is remembered in  *)
(* upfPrev.                                                                *)
(***************************************************************************)
(***************************************************************************)
(* updateExternalAddresses() from its first await to its second, lines     *)
(* 574-581: once the addresses component is there, the array is built from *)
(* the hostname setting and this.cloudflareTunnel as they are then, and is *)
(* given to setExternalAddresses().  A call r that is not at that await    *)
(* gives nothing.                                                          *)
(***************************************************************************)
NotAnnounced == [announced |-> FALSE, addresses |-> <<>>]

cloudAddresses(v, tunnel) ==
    (IF v.hostname # "" THEN <<"https://" \o v.hostname>> ELSE <<>>)
        \o (IF tunnel # "" THEN <<"https://" \o tunnel>> ELSE <<>>)

setExternalAddresses(r, v, tunnel) ==
    IF r.pc = "uea"
    THEN [announced |-> TRUE, addresses |-> cloudAddresses(v, tunnel)]
    ELSE externalAddresses

Summary(r, v) ==
    [port |-> r.port, ip |-> r.ip, authority |-> getAuthority(v), requests |-> r.requests,
     registered |-> r.registered, valid |-> TRUE, tick |-> 1 - upfPrev.tick]

Step(i, res, ps) ==
    /\ values' = res.v
    /\ alerts' = res.a
    /\ upnpStatus' = res.s
    /\ procs' = [ps EXCEPT ![i] = IF Ended(res.r) THEN Idle ELSE res.r]
    /\ regOutcome' = IF res.o = NoOutcome THEN regOutcome
                      ELSE [res.o EXCEPT !.tick = 1 - regOutcome.tick]
    /\ uncaught' = IF res.r.pc = "rejected" THEN uncaught \cup {res.r.root} ELSE uncaught
    /\ externalAddresses' = setExternalAddresses(procs[i], values, cloudflareTunnel)
    /\ upfPrev' = IF ~Ended(res.r) THEN upfPrev
                   ELSE IF res.r.op = "upf" /\ res.r.pc = "resolved" /\ res.r.alone
                   THEN Summary(res.r, res.v)
                   ELSE [NoCall EXCEPT !.tick = upfPrev.tick]

\* A call begun from outside, in the first free slot.
Start(i, res) ==
    /\ started < MaxOps
    /\ FreeSlot(i)
    /\ started' = started + 1
    /\ Step(i, res, Disturbed(i))

Resume(i, pc, res) ==
    /\ procs[i].pc = pc
    /\ Step(i, res, procs)
    /\ UNCHANGED started

(***************************************************************************)
(* The callers of refreshPortForward: the 30 minute interval (and the call *)
(* at startup), and the timer of scheduleRefreshPortForward.               *)
(***************************************************************************)
RandomPorts == {40000, 60000}

(***************************************************************************)
(* Math.round(Math.random() * 20000 + 40000), line 460.  Math.random()     *)
(* returns k / RandomSteps for some k in 0 .. RandomSteps - 1, a value of  *)
(* [0, 1); Math.round(x) is the floor of x + 1/2, here for x = num / den,  *)
(* and rounding commutes with adding the integer 40000.                    *)
(***************************************************************************)
RandomSteps == 40000

MathRandom == 0 .. RandomSteps - 1

MathRound(num, den) == (2 * num + den) \div (2 * den)

\* Math.round(Math.random() * 20000 + 40001)
randomPort_Shifted(k) == 40001 + MathRound(20000 * k, RandomSteps)

randomPort(k) == 40000 + MathRound(20000 * k, RandomSteps)

\* A refresh cycle while no other call is in progress, for every value of
\* Math.random().
RefreshRandom(i) ==
    /\ FreeSlot(i)
    /\ OthersIdle(i)
    /\ started < MaxOps
    /\ \E k \in MathRandom :
          Start(i, refreshPortForward(Begin(i, "rpf"), values, alerts, upnpStatus,
                                      randomPort(k)))
    /\ mapFailed' = FALSE
    /\ UNCHANGED <<otherVars, tunnelVars, authority, registrationId, reregisterTimer,
                   timers, debounce, mapped>>

IntervalRefresh(i) ==
    /\ boot.observing
    /\ \E random \in RandomPorts :
          Start(i, refreshPortForward(Begin(i, "rpf"), values, alerts, upnpStatus, random))
    /\ mapFailed' = FALSE
    /\ UNCHANGED <<otherVars, tunnelVars, authority, registrationId, reregisterTimer,
                   timers, debounce, mapped>>

TimerRefresh(i) ==
    /\ timers > 0
    /\ timers' = timers - 1
    /\ reregisterTimer' = FALSE
    /\ debounce' = [debounce EXCEPT !.runs = @ + 1]
    /\ \E random \in RandomPorts :
          Start(i, refreshPortForward(Begin(i, "rpf"), values, alerts, upnpStatus, random))
    /\ UNCHANGED <<otherVars, tunnelVars, authority, registrationId, mapFailed, mapped>>

LocalAddresses(i) ==
    /\ \E localAddress \in BOOLEAN :
          Resume(i, "rpf_addr",
                 refreshPortForwardAddress(procs[i], values, alerts, upnpStatus, localAddress))
    /\ UNCHANGED <<otherVars, tunnelVars, authority, registrationId, timerVars>>

PortMapped(i) ==
    /\ \E err \in BOOLEAN :
          /\ Resume(i, "rpf_map",
                    refreshPortForwardMapped(procs[i], values, alerts, upnpStatus, err))
          /\ mapFailed' = (err \/ mapFailed)
          /\ mapped' = IF err THEN mapped ELSE mapped \cup {procs[i].port}
    /\ UNCHANGED <<otherVars, tunnelVars, authority, registrationId, reregisterTimer,
                   timers, debounce>>

(***************************************************************************)
(* The steps of updatePortForward and sendRegistrationId.                  *)
(***************************************************************************)
DuckDnsUpdated(i) ==
    /\ Resume(i, "upf_duck", Res(At(procs[i], "rejected"), values, alerts, upnpStatus,
                                 NoOutcome))
    /\ UNCHANGED <<otherVars, tunnelVars, authority, registrationId, timerVars>>

PunchIp(i) ==
    /\ \E resp \in {"failed", "localhost"} \cup RelayIps :
          Resume(i, "upf_ip", updatePortForwardIp(procs[i], values, alerts, upnpStatus, resp))
    /\ UNCHANGED <<otherVars, tunnelVars, authority, registrationId, timerVars>>

RegistrationIdKnown(i) ==
    /\ boot.regId
    /\ Resume(i, "upf_regid",
              sendRegistrationId(procs[i], values, alerts, upnpStatus, registrationId))
    /\ UNCHANGED <<otherVars, tunnelVars, authority, registrationId, timerVars>>

Registered(i) ==
    /\ \E resp \in RegisterResponses :
          Resume(i, "reg_wait",
                 sendRegistrationIdResponse(procs[i], values, alerts, upnpStatus, resp))
    /\ UNCHANGED <<otherVars, tunnelVars, authority, registrationId, timerVars>>

AfterRegistered(i) ==
    /\ Resume(i, "upf_after", updatePortForwardAfter(procs[i], values, alerts, upnpStatus))
    /\ UNCHANGED <<otherVars, tunnelVars, authority, registrationId, timerVars>>

\* The Register button, and the 'registrationId' event of the push manager, which
\* carries the current or a new registration id.
Register(i) ==
    /\ boot.observing
    /\ \E id \in RegistrationIds :
          /\ registrationId' = id
          /\ Start(i, sendRegistrationId(Begin(i, "reg"), values, alerts, upnpStatus, id))
    /\ UNCHANGED <<otherVars, tunnelVars, authority, timerVars>>

(***************************************************************************)
(* scheduleRefreshPortForward(), lines 340-347, as the onPut of a setting. *)
(* debounce counts the bursts (a trigger that finds no timeout pending     *)
(* opens one) and the runs of refreshPortForward the timer started.        *)
(***************************************************************************)
\* scheduleRefreshPortForward() without its test of the pending timer.
scheduleRefreshPortForward_NoTest ==
    [reregisterTimer |-> TRUE, timers |-> timers + 1]

scheduleRefreshPortForward ==
    IF reregisterTimer
    THEN [reregisterTimer |-> reregisterTimer, timers |-> timers]
    ELSE [reregisterTimer |-> TRUE, timers |-> timers + 1]

\* The settings whose onPut is scheduleRefreshPortForward, lines 81-129.
Scheduling == {"forwardingMode", "hostname", "upnpPort"}

NoPut == [forwardingMode |-> "", hostname |-> "", upnpPort |-> 0]

\* changed are the settings that the puts of the current burst changed, put is what
\* the last of these puts left in them.
Schedule ==
    /\ reregisterTimer' = scheduleRefreshPortForward.reregisterTimer
    /\ timers' = scheduleRefreshPortForward.timers
    /\ debounce' = [debounce EXCEPT
                       !.triggers = @ + 1,
                       !.bursts = IF timers = 0 THEN @ + 1 ELSE @,
                       !.changed = (IF timers = 0 THEN {} ELSE @)
                                      \cup {f \in Scheduling : values'[f] # values[f]},
                       !.put = [f \in Scheduling |-> values'[f]]]
    /\ UNCHANGED <<mapFailed, mapped>>

\* A setting is put: what ran alone no longer does.
PutSetting(v) ==
    /\ debounce.triggers < MaxPuts
    /\ values' = v
    /\ procs' = [j \in Procs |-> IF procs[j].pc = "idle" THEN procs[j]
                                 ELSE [procs[j] EXCEPT !.alone = FALSE]]
    /\ upfPrev' = [NoCall EXCEPT !.tick = upfPrev.tick]
    /\ UNCHANGED <<otherVars, tunnelVars, alerts, authority, registrationId, upnpStatus,
                   started, regOutcome, uncaught, externalAddresses>>

PutForwardingMode ==
    /\ \E m \in ForwardingModes : PutSetting([values EXCEPT !.forwardingMode = m])
    /\ Schedule

PutHostname ==
    /\ \E h \in Hostnames : PutSetting([values EXCEPT !.hostname = h])
    /\ Schedule

PutUpnpPort ==
    \E p \in {0, HTTPS_PORT, 40000} :
        /\ PutSetting([values EXCEPT !.upnpPort = p])
        /\ IF p # values.upnpPort THEN Schedule ELSE UNCHANGED timerVars

(***************************************************************************)
(* updateExternalAddresses(), lines 573-584: it awaits the addresses       *)
(* component and then calls updatePortForward(values.upnpPort).            *)
(***************************************************************************)
updateExternalAddresses(i) ==
    Start(i, Res(At(Begin(i, "upf"), "uea"), values, alerts, upnpStatus, NoOutcome))

(***************************************************************************)
(* startCloudflared(), lines 957-1077, called once by the constructor.     *)
(* pc is "init" before the call, "disabled" when it returned at line 960,  *)
(* "starting" while a start attempt of backOff() awaits the tunnel URL,    *)
(* "running" while it awaits the exit of the child, and "exited" when the  *)
(* promise it returned was rejected.  attempts counts the start attempts   *)
(* of the current backOff() call, delay is the time backOff() waited       *)
(* before the current attempt, deferred is the Deferred of the current     *)
(* attempt, line and handled are the last line of the child's error stream *)
(* and what the handler did with it, lines counts the lines the child of   *)
(* the current attempt wrote.                                              *)
(***************************************************************************)
\* The Deferred of a start attempt, line 1013: a promise settles once, and undefined
\* is kept as "".
Pending == [settled |-> FALSE, value |-> ""]

resolve(deferred, value) ==
    IF deferred.settled THEN deferred ELSE [settled |-> TRUE, value |-> value]

(***************************************************************************)
(* The 'data' handler of the child's error stream, lines 1016-1043, for    *)
(* one line.  A line is kept as: marker, whether it has the text config=;  *)
(* encoded, how many times the configuration after the marker was JSON     *)
(* stringified (cloudflared logs it stringified twice, which puts it in    *)
(* double quotes); wellformed, whether the innermost text is JSON;         *)
(* ingress, the hostnames of the configuration's ingress rules ("" for a   *)
(* rule without hostname).                                                 *)
(***************************************************************************)
IngressHosts == {"", TUNNEL_HOST, "cam.example.com"}

Ingresses ==
    {<<>>} \cup {<<h>> : h \in IngressHosts}
           \cup {<<h, g>> : h \in IngressHosts, g \in IngressHosts}

Lines == [marker : BOOLEAN, encoded : 1..2, wellformed : BOOLEAN, ingress : Ingresses]

NoLine == [marker |-> FALSE, encoded |-> 1, wellformed |-> FALSE, ingress |-> <<>>]

\* JSON.parse(): text that was stringified depth times gives what was stringified
\* depth - 1 times; anything else throws.
JSONparse(text) ==
    IF text.threw \/ text.depth = 0 \/ (text.depth = 1 /\ ~text.wellformed)
    THEN [text EXCEPT !.threw = TRUE]
    ELSE [text EXCEPT !.depth = @ - 1]

\* /config=(".*?}")/: the marker followed by a double-quoted text.
match(line) == line.marker /\ line.encoded = 2

\* What the handler did with a line: matched says whether the regular expression
\* matched, caught whether JSON.parse threw into the catch block, threw whether
\* the handler itself threw, resolved whether it called deferred.resolve, value
\* the value it resolved with.
Handled(matched, caught, resolved, value) ==
    [matched |-> matched, caught |-> caught, threw |-> FALSE, resolved |-> resolved,
     value |-> value]

NotHandled == Handled(FALSE, FALSE, FALSE, "")

\* The handler with parsed.ingress.at(-1) in place of parsed.ingress?.[0].
stderrLine_Last(line) ==
    LET parsed == JSONparse(JSONparse([threw |-> FALSE, depth |-> line.encoded,
                                       wellformed |-> line.wellformed]))
        hostname == IF Len(line.ingress) = 0 THEN "" ELSE line.ingress[Len(line.ingress)]
    IN  IF ~match(line) THEN NotHandled
        ELSE IF parsed.threw THEN Handled(TRUE, TRUE, FALSE, "")
        ELSE IF hostname = "" THEN Handled(TRUE, FALSE, TRUE, "")
        ELSE Handled(TRUE, FALSE, TRUE, "https://" \o hostname)

stderrLine(line) ==
    LET parsed == JSONparse(JSONparse([threw |-> FALSE, depth |-> line.encoded,
                                       wellformed |-> line.wellformed]))
        hostname == IF Len(line.ingress) = 0 THEN "" ELSE line.ingress[1]
    IN  IF ~match(line) THEN NotHandled
        ELSE IF parsed.threw THEN Handled(TRUE, TRUE, FALSE, "")
        ELSE IF hostname = "" THEN Handled(TRUE, FALSE, TRUE, "")
        ELSE Handled(TRUE, FALSE, TRUE, "https://" \o hostname)

\* exited says that the child of the current start attempt has exited, orphans
\* counts the children of earlier start attempts that have not exited.
NotStarted == [pc |-> "init", attempts |-> 0, delay |-> 0, deferred |-> Pending,
               line |-> NoLine, handled |-> NotHandled, lines |-> 0, exited |-> FALSE,
               orphans |-> 0]

(***************************************************************************)
(* The options of the backOff() call, lines 1056-1061, and the delay the   *)
(* exponential-backoff package derives from them: the first attempt is     *)
(* made at once (delayFirstAttempt is not set), and after attemptNumber    *)
(* failed attempts the next one waits                                      *)
(*   min(startingDelay * timeMultiple ^ (attemptNumber - 1), maxDelay)     *)
(* (no jitter is set).  timeMultiple is 1.2 = 6/5; the delays are kept in  *)
(* ticks of 1/3125 ms, in which the powers of 1.2 that stay below maxDelay *)
(* are whole numbers.                                                      *)
(***************************************************************************)
\* startingDelay of 6 s
startingDelay_Seconds == 6 * 1000

startingDelay == 60000

maxDelay == 300000

TicksPerMs == 5 * 5 * 5 * 5 * 5

RECURSIVE timeMultiplePower(_, _)

\* constant * Math.pow(timeMultiple, power)
timeMultiplePower(constant, power) ==
    IF power = 0 THEN constant
    ELSE (timeMultiplePower(constant, power - 1) \div 5) * 6

backOffDelay(attemptNumber) ==
    LET delay == timeMultiplePower(startingDelay * TicksPerMs, attemptNumber - 1)
    IN  IF delay < maxDelay * TicksPerMs THEN delay ELSE maxDelay * TicksPerMs

startCloudflared ==
    /\ cloudflared.pc = "init"
    /\ cloudflared' = IF ~values.cloudflareEnabled
                      THEN [cloudflared EXCEPT !.pc = "disabled"]
                      ELSE [NotStarted EXCEPT !.pc = "starting", !.attempts = 1]
    /\ UNCHANGED <<otherVars, cloudflareTunnel, settingVars, timerVars, procVars>>

\* Lines 968-999: the install of the binary fails, and backOff() tries again after
\* its delay.
CloudflaredInstallFailed ==
    /\ cloudflared.pc = "starting"
    /\ cloudflared.attempts < MaxAttempts
    /\ cloudflared.lines = 0
    /\ ~cloudflared.exited
    /\ cloudflared' = [cloudflared EXCEPT !.attempts = @ + 1,
                                          !.delay = backOffDelay(cloudflared.attempts)]
    /\ UNCHANGED <<otherVars, cloudflareTunnel, settingVars, timerVars, procVars>>

\* Lines 1045-1056: the URL of the tunnel is known, the attempt returns the child.
CloudflaredUrl(i) ==
    /\ cloudflared.pc = "starting"
    /\ \E t \in (TunnelHosts \cup IngressHosts) \ {""} :
          /\ IF cloudflared.deferred.settled
             THEN cloudflared.deferred.value = "https://" \o t
             ELSE t \in TunnelHosts
          /\ cloudflareTunnel' = t
    /\ updateExternalAddresses(i)
    /\ cloudflared' = [cloudflared EXCEPT !.pc = "running"]
    /\ UNCHANGED <<otherVars, authority, registrationId, timerVars>>

\* The exit handler without its deferred.resolve(undefined).
CloudflaredChildExited_NoResolve ==
    /\ cloudflared.pc = "starting"
    /\ ~cloudflared.exited
    /\ ~cloudflared.deferred.settled
    /\ cloudflared' = [cloudflared EXCEPT !.exited = TRUE]
    /\ UNCHANGED <<otherVars, cloudflareTunnel, settingVars, timerVars, procVars>>

\* Line 1044: the child of a start attempt exits before the attempt has a URL; the
\* exit handler resolves the Deferred with undefined.  (Once the Deferred is
\* resolved, the attempt continues before the event loop delivers any exit.)
CloudflaredChildExited ==
    /\ cloudflared.pc = "starting"
    /\ ~cloudflared.exited
    /\ ~cloudflared.deferred.settled
    /\ cloudflared' = [cloudflared EXCEPT !.exited = TRUE,
                                          !.deferred = resolve(@, "")]
    /\ UNCHANGED <<otherVars, cloudflareTunnel, settingVars, timerVars, procVars>>

\* Lines 1045-1054: Promise.any() gave undefined (the Deferred was resolved with
\* it by the exit of the child, or by a configuration without hostname); the
\* attempt throws, and backOff() tries again after its delay.
CloudflaredNoUrl(i) ==
    /\ cloudflared.pc = "starting"
    /\ cloudflared.attempts < MaxAttempts
    /\ cloudflared.deferred.settled
    /\ cloudflared.deferred.value = ""
    /\ cloudflareTunnel' = ""
    /\ updateExternalAddresses(i)
    /\ cloudflared' = [cloudflared EXCEPT !.attempts = @ + 1,
                                          !.delay = backOffDelay(cloudflared.attempts),
                                          !.deferred = Pending,
                                          !.line = NoLine,
                                          !.handled = NotHandled,
                                          !.lines = 0,
                                          !.exited = FALSE,
                                          !.orphans = IF cloudflared.exited THEN @
                                                      ELSE @ + 1]
    /\ UNCHANGED <<otherVars, authority, registrationId, timerVars>>

\* Line 1044, for the child of an earlier start attempt: it exits, and its exit
\* handler resolves a Deferred that was resolved already, which does nothing.
CloudflaredOrphanExited ==
    /\ cloudflared.orphans > 0
    /\ cloudflared' = [cloudflared EXCEPT !.orphans = @ - 1]
    /\ UNCHANGED <<otherVars, cloudflareTunnel, settingVars, timerVars, procVars>>

\* Lines 1016-1043: the child writes a line to its error stream.
CloudflaredStderr ==
    /\ cloudflared.pc \in {"starting", "running"}
    /\ ~cloudflared.exited
    /\ cloudflared.lines < MaxLines
    /\ \E line \in Lines :
          cloudflared' =
              [cloudflared EXCEPT
                  !.line = line,
                  !.handled = stderrLine(line),
                  !.lines = @ + 1,
                  !.deferred = IF stderrLine(line).resolved
                               THEN resolve(@, stderrLine(line).value) ELSE @]
    /\ UNCHANGED <<otherVars, cloudflareTunnel, settingVars, timerVars, procVars>>

\* The exit of the child with a finally block that does not call
\* updateExternalAddresses().
CloudflaredExited_NoAnnounce(i) ==
    /\ cloudflared.pc = "running"
    /\ cloudflareTunnel' = ""
    /\ cloudflared' = [cloudflared EXCEPT !.pc = "exited", !.exited = TRUE]
    /\ UNCHANGED <<otherVars, settingVars, timerVars, procVars>>

\* Lines 1064-1075: the child exits; line 1065 throws, the catch block throws the
\* error again, and the finally block runs before the promise of
\* startCloudflared() is rejected: the while loop is left.
CloudflaredExited(i) ==
    /\ cloudflared.pc = "running"
    /\ cloudflareTunnel' = ""
    /\ updateExternalAddresses(i)
    /\ cloudflared' = [cloudflared EXCEPT !.pc = "exited", !.exited = TRUE]
    /\ UNCHANGED <<otherVars, authority, registrationId, timerVars>>

ExternalAddressesSet(i) ==
    /\ Resume(i, "uea",
              updatePortForward(procs[i], values, alerts, upnpStatus, values.upnpPort))
    /\ UNCHANGED <<otherVars, tunnelVars, authority, registrationId, timerVars>>

(***************************************************************************)
(* The thermostat plugin (src/plugins/thermostat/src/main.ts, class        *)
(* ThermostatDevice).  thermostat is a record:                             *)
(*   thermostatMode, thermostatSetpoint, thermostatSetpointLow,            *)
(*   thermostatSetpointHigh: the properties of the device ("" is a mode    *)
(*     that is null, 0 a setpoint that is not set);                        *)
(*   thermostatState, lastThermostatMode: the items of this.storage;       *)
(*   temperature: this.sensor.temperature;                                 *)
(*   has: whether this.heater and this.cooler are assigned;                *)
(*   on: the on property of the heater and of the cooler, as the plugin    *)
(*     reads it;                                                           *)
(*   queue: the turnOn() (TRUE) and turnOff() (FALSE) commands sent to a   *)
(*     device that it has not carried out yet: turnOn() and turnOff()      *)
(*     return promises that updateState() does not await, and the on       *)
(*     property changes when the device reports its new state;             *)
(*   log: what the last run of updateState() did, in the order it did it;  *)
(*   ran: the last step ran updateState();                                 *)
(*   cause: what the last step was.                                        *)
(***************************************************************************)
Devices == {"heater", "cooler"}
Temperatures == {0, 17, 19, 23}
Setpoints == {0, 20}
SetpointsLow == {0, 18}
SetpointsHigh == {0, 22}
ThermostatModes == {"Off", "Heat", "Cool", "HeatCool", "On"}
MaxPending == 2

\* Line 142.
threshold == 2

\* Lines 45-70: the device after construction; thermostatMode is Off when it was
\* not set.
NoThermostat ==
    [thermostatMode |-> "Off", thermostatState |-> "", lastThermostatMode |-> "",
     thermostatSetpoint |-> 0, thermostatSetpointLow |-> 0, thermostatSetpointHigh |-> 0,
     temperature |-> 0,
     has |-> [d \in Devices |-> FALSE],
     on |-> [d \in Devices |-> FALSE],
     queue |-> [d \in Devices |-> <<>>],
     log |-> <<>>, ran |-> FALSE, cause |-> "none"]

\* Lines 158-166: the state is stored; a state that is the stored one already is
\* not written again, and is the stored one all the same.
setState(t, state) ==
    [t EXCEPT !.thermostatState = state, !.log = Append(@, "setState")]

\* er.turnOn() of lines 190-192: the command is sent to the device.
turnOn(t, d) ==
    [t EXCEPT !.queue[d] = Append(@, TRUE), !.log = Append(@, d \o ".turnOn")]

\* turnOff() of lines 175-177, 181-183, 197-199 and 203-208.
turnOff(t, d) ==
    [t EXCEPT !.queue[d] = Append(@, FALSE), !.log = Append(@, d \o ".turnOff")]

\* Lines 168-200.  other is "null" where the caller passes null; thermostatState
\* is the state that updateState() read before it (line 153).
manageSetpoint(t, thermostatState, temperatureDifference, er, other, ing, ed) ==
    IF ~t.has[er] THEN t
    ELSE
        LET t1 == IF other # "null" /\ t.has[other] /\ t.on[other]
                  THEN turnOff(t, other) ELSE t
            stop == LET t2 == setState(t1, ed)
                    IN  IF t2.on[er] THEN turnOff(t2, er) ELSE t2
            go == LET t2 == setState(t1, ing)
                  IN  IF ~t2.on[er] THEN turnOn(t2, er) ELSE t2
        IN  IF temperatureDifference < 0 THEN stop
            ELSE IF temperatureDifference > threshold \/ thermostatState # ing THEN go
            ELSE stop

\* Lines 202-209.
allOff(t) ==
    LET t1 == IF t.has["heater"] /\ t.on["heater"] THEN turnOff(t, "heater") ELSE t
    IN  IF t1.has["cooler"] /\ t1.on["cooler"] THEN turnOff(t1, "cooler") ELSE t1

\* Lines 141-279.
updateState(t0) ==
    LET t == [t0 EXCEPT !.log = <<>>, !.ran = TRUE]
        thermostatMode == IF t.thermostatMode = "" THEN "Off" ELSE t.thermostatMode
        thermostatState == t.thermostatState
        temperature == t.temperature
        thermostatSetpoint ==
            IF t.thermostatSetpoint # 0 THEN t.thermostatSetpoint ELSE temperature
        thermostatSetpointLow ==
            IF t.thermostatSetpointLow # 0 THEN t.thermostatSetpointLow ELSE temperature
        thermostatSetpointHigh ==
            IF t.thermostatSetpointHigh # 0 THEN t.thermostatSetpointHigh ELSE temperature
    IN  CASE thermostatMode = "Off" -> allOff(setState(t, "Off"))
          [] thermostatMode = "Cool" ->
                IF thermostatSetpoint = 0 THEN t
                ELSE manageSetpoint(t, thermostatState, temperature - thermostatSetpoint,
                                    "cooler", "heater", "Cooling", "Cooled")
          [] thermostatMode = "Heat" ->
                IF thermostatSetpoint = 0 THEN t
                ELSE manageSetpoint(t, thermostatState, thermostatSetpoint - temperature,
                                    "heater", "cooler", "Heating", "Heated")
          [] thermostatMode = "HeatCool" ->
                IF thermostatSetpointLow = 0 \/ thermostatSetpointHigh = 0 THEN t
                ELSE IF /\ thermostatState \in {"HeatCooled", "Heated", "Cooled"}
                        /\ temperature > thermostatSetpointLow - threshold
                        /\ temperature < thermostatSetpointHigh + threshold
                THEN allOff(setState(t, "HeatCooled"))
                ELSE IF temperature < thermostatSetpointLow \/ thermostatState = "Heating"
                THEN manageSetpoint(t, thermostatState,
                                    thermostatSetpointHigh - temperature,
                                    "heater", "null", "Heating", "Heated")
                ELSE IF temperature > thermostatSetpointHigh \/ thermostatState = "Cooling"
                THEN manageSetpoint(t, thermostatState,
                                    temperature - thermostatSetpointLow,
                                    "cooler", "null", "Cooling", "Cooled")
                ELSE allOff(setState(t, "HeatCooled"))
          [] OTHER -> t

\* Lines 296-306.
setThermostatMode(t, mode) ==
    updateState([t EXCEPT
        !.thermostatMode = IF mode = "On" THEN t.lastThermostatMode ELSE mode,
        !.lastThermostatMode = IF mode \notin {"On", "Off"} THEN mode ELSE @])

\* Lines 312-329.
manageEvent(t, on, ing) ==
    IF on
    THEN IF t.thermostatState # ing THEN setThermostatMode(t, "On") ELSE t
    ELSE IF t.thermostatState = ing THEN setThermostatMode(t, "Off") ELSE t

\* A run of updateState() sends at most one command to each device: the steps that
\* run it are taken while each device has fewer than MaxPending commands to carry out.
CanCommand == \A d \in Devices : Len(thermostat.queue[d]) < MaxPending

\* Lines 107-112: the sensor reports a temperature.
TemperatureEvent ==
    /\ CanCommand
    /\ \E temperature \in Temperatures :
          thermostat' = [updateState([thermostat EXCEPT !.temperature = temperature])
                           EXCEPT !.cause = "temperature"]
    /\ UNCHANGED <<controllerVars, poolVars, whitelistVars, testVars, reverseVars,
                   startupVars>>

\* Lines 281-285.
SetThermostatSetpoint ==
    /\ CanCommand
    /\ \E thermostatSetpoint \in Setpoints :
          thermostat' =
              [updateState([thermostat EXCEPT !.thermostatSetpoint = thermostatSetpoint])
                 EXCEPT !.cause = "setpoint"]
    /\ UNCHANGED <<controllerVars, poolVars, whitelistVars, testVars, reverseVars,
                   startupVars>>

\* Lines 286-290.
SetThermostatSetpointLow ==
    /\ CanCommand
    /\ \E thermostatSetpointLow \in SetpointsLow :
          thermostat' =
              [updateState([thermostat EXCEPT
                                !.thermostatSetpointLow = thermostatSetpointLow])
                 EXCEPT !.cause = "setpoint"]
    /\ UNCHANGED <<controllerVars, poolVars, whitelistVars, testVars, reverseVars,
                   startupVars>>

\* Lines 291-295.
SetThermostatSetpointHigh ==
    /\ CanCommand
    /\ \E thermostatSetpointHigh \in SetpointsHigh :
          thermostat' =
              [updateState([thermostat EXCEPT
                                !.thermostatSetpointHigh = thermostatSetpointHigh])
                 EXCEPT !.cause = "setpoint"]
    /\ UNCHANGED <<controllerVars, poolVars, whitelistVars, testVars, reverseVars,
                   startupVars>>

\* Lines 296-306, called by the user of the device.
SetThermostatMode ==
    /\ CanCommand
    /\ \E mode \in ThermostatModes :
          thermostat' = [setThermostatMode(thermostat, mode) EXCEPT !.cause = "mode"]
    /\ UNCHANGED <<controllerVars, poolVars, whitelistVars, testVars, reverseVars,
                   startupVars>>

\* Lines 124-130: a device has carried out the oldest command sent to it and
\* reports its state; the listener of its OnOff events calls manageEvent() with
\* its on property.  No action switches a device by hand: every OnOff event is the
\* effect of a command of updateState().
ing(d) == IF d = "heater" THEN "Heating" ELSE "Cooling"

OnOffEvent(d) ==
    /\ thermostat.queue[d] # <<>>
    /\ LET on == Head(thermostat.queue[d])
           t == [thermostat EXCEPT !.queue[d] = Tail(@), !.on[d] = on, !.log = <<>>,
                                   !.ran = FALSE]
       IN  thermostat' = [manageEvent(t, on, ing(d)) EXCEPT !.cause = "event"]
    /\ UNCHANGED <<controllerVars, poolVars, whitelistVars, testVars, reverseVars,
                   startupVars>>

(***************************************************************************)
(* The startup, lines 312-337 of the constructor.  boot says whether the   *)
(* constructor took the token of the environment (env), whether            *)
(* this.manager.registrationId has resolved (regId), whether the promise   *)
(* of setupProxyServer() has resolved, that is, the listeners are up       *)
(* (proxy), whether observeRegistrations() has run (observing), how many   *)
(* sendRegistrationId calls the startup made (sent) and whether the last   *)
(* of them was given force = true (forced).                                *)
(***************************************************************************)
NotBooted == [env |-> FALSE, regId |-> FALSE, proxy |-> FALSE, observing |-> FALSE,
              sent |-> 0, forced |-> FALSE]

\* The plugin after its startup.
Booted == [NotBooted EXCEPT !.regId = TRUE, !.proxy = TRUE, !.observing = TRUE]

EnvTokens == {"", "envtoken"}

\* Lines 322-323: the token of the environment is taken when no token is stored.
constructor(v, envToken) ==
    IF v.token_info = "" /\ envToken # ""
    THEN [v |-> [v EXCEPT !.token_info = envToken], env |-> TRUE]
    ELSE [v |-> v, env |-> FALSE]

\* The callback of this.manager.registrationId registers the id whatever was
\* persisted.
startupRegisters_Always(v, env, id) == TRUE

\* Lines 324-333: whether the callback of this.manager.registrationId calls
\* sendRegistrationId().
startupRegisters(v, env, id) == env \/ v.lastPersistedRegistrationId # id

\* Lines 324-333: this.manager.registrationId resolves, and the callback the
\* constructor gave it runs.
StartupRegistrationId(i) ==
    /\ ~boot.regId
    /\ IF startupRegisters(values, boot.env, registrationId)
       THEN /\ Start(i, sendRegistrationId(Begin(i, "reg"), values, alerts, upnpStatus,
                                           registrationId))
            /\ boot' = [boot EXCEPT !.regId = TRUE, !.sent = @ + 1, !.forced = boot.env]
            /\ UNCHANGED <<authority, registrationId>>
       ELSE /\ boot' = [boot EXCEPT !.regId = TRUE]
            /\ UNCHANGED <<settingVars, procVars>>
    /\ UNCHANGED <<poolVars, whitelistVars, testVars, reverseVars, tunnelVars, timerVars,
                   thermostatVars>>

\* Lines 857-882: the servers of setupProxyServer() are listening, and its promise
\* resolves.
StartupProxyUp ==
    /\ ~boot.proxy
    /\ boot' = [boot EXCEPT !.proxy = TRUE]
    /\ UNCHANGED <<controllerVars, poolVars, whitelistVars, testVars, reverseVars,
                   thermostatVars>>

\* Lines 312-321, 327 and 336: proxy.then(observeRegistrations), which the
\* constructor calls at once when it did not take the token of the environment and
\* from the callback of this.manager.registrationId when it did:
\* observeRegistrations() listens to the registrationId event, sets the 30 minute
\* interval and runs the first refreshPortForward().
StartupObserve(i) ==
    /\ ~boot.observing
    /\ boot.proxy
    /\ boot.env => boot.regId
    /\ boot' = [boot EXCEPT !.observing = TRUE]
    /\ \E random \in RandomPorts :
          Start(i, refreshPortForward(Begin(i, "rpf"), values, alerts, upnpStatus, random))
    /\ mapFailed' = FALSE
    /\ UNCHANGED <<poolVars, whitelistVars, testVars, reverseVars, tunnelVars, authority,
                   registrationId, reregisterTimer, timers, debounce, mapped,
                   thermostatVars>>

(***************************************************************************)
(* The reverse connection pool, lines 1079-1120 and 898-951.  The set      *)
(* this.reverseConnections is kept as the number of its connections whose  *)
(* claimed flag is false and the number of those whose flag is true.       *)
(***************************************************************************)
POOL_SIZE == 10

NoConnections == [unclaimed |-> 0, claimed |-> 0]

Size(rc) == rc.unclaimed + rc.claimed

\* createReverseConnection() up to its await of readLine(), lines 1085-1101: the
\* new connection is added to the set, its claimed flag is false.
createReverseConnection(rc) == [rc EXCEPT !.unclaimed = @ + 1]

RECURSIVE ensureReverseConnections(_)

\* ensureReverseConnections() with an if in place of its while.
ensureReverseConnections_Once(rc) ==
    IF Size(rc) < POOL_SIZE THEN createReverseConnection(rc) ELSE rc

RECURSIVE ensureReverseConnections_Inclusive(_)

\* ensureReverseConnections() with <= in place of <.
ensureReverseConnections_Inclusive(rc) ==
    IF Size(rc) <= POOL_SIZE
    THEN ensureReverseConnections_Inclusive(createReverseConnection(rc))
    ELSE rc

\* ensureReverseConnections(), lines 1079-1083.
ensureReverseConnections(rc) ==
    IF Size(rc) < POOL_SIZE
    THEN ensureReverseConnections(createReverseConnection(rc))
    ELSE rc

\* accepted counts the callback messages that passed the throttle, pending those of
\* them that await the registration id, mux the mux connections opened; throttled
\* says that Date.now() < backoff + 5000; wrote is what was first written to the mux
\* connection opened last.
NoCallbacks == [accepted |-> 0, pending |-> 0, mux |-> 0, throttled |-> FALSE,
                wrote |-> ""]

\* The last event of the pool: the size of the set before it, the connections it
\* removed from the set and those it created.
NoPoolEvent == [event |-> "none", before |-> 0, removed |-> 0, created |-> 0, tick |-> 0]

PoolEvent(event, before, removed, rc) ==
    [event |-> event, before |-> before, removed |-> removed,
     created |-> Size(rc) + removed - before, tick |-> 1 - poolLast.tick]

\* The handler of a callback message without its test of backoff.
CallbackMessage_NoThrottle ==
    /\ callback.accepted < MaxCallbacks
    /\ callback' = [callback EXCEPT !.accepted = @ + 1, !.pending = @ + 1,
                                    !.throttled = TRUE]
    /\ poolLast' = PoolEvent("accepted", Size(reverseConnections), 0, reverseConnections)
    /\ UNCHANGED <<reverseConnections, nonPoolVars>>

\* Lines 911-916: a callback message; it is ignored less than 5 seconds after the
\* last one that was not, otherwise the handler awaits the registration id.
CallbackMessage ==
    /\ IF callback.throttled
       THEN /\ poolLast' = PoolEvent("ignored", Size(reverseConnections), 0,
                                     reverseConnections)
            /\ UNCHANGED callback
       ELSE /\ callback.accepted < MaxCallbacks
            /\ callback' = [callback EXCEPT !.accepted = @ + 1, !.pending = @ + 1,
                                            !.throttled = TRUE]
            /\ poolLast' = PoolEvent("accepted", Size(reverseConnections), 0,
                                     reverseConnections)
    /\ UNCHANGED <<reverseConnections, nonPoolVars>>

\* Five seconds have passed since the last accepted callback message.
BackoffElapsed ==
    /\ callback.throttled
    /\ callback' = [callback EXCEPT !.throttled = FALSE]
    /\ UNCHANGED <<reverseConnections, poolLast, nonPoolVars>>

\* Lines 921-932: the registration id is known; the pool is topped up and the mux
\* connection is opened.
CallbackConnect ==
    /\ callback.pending > 0
    /\ reverseConnections' = ensureReverseConnections(reverseConnections)
    /\ callback' = [callback EXCEPT !.pending = @ - 1, !.mux = @ + 1,
                                    !.wrote = registrationId \o "\n"]
    /\ poolLast' = PoolEvent("callback", Size(reverseConnections), 0, reverseConnections')
    /\ UNCHANGED nonPoolVars

\* Lines 934-935: the handshake of a stream of a mux connection.
MuxHandshake ==
    /\ callback.mux > 0
    /\ reverseConnections' = ensureReverseConnections(reverseConnections)
    /\ poolLast' = PoolEvent("handshake", Size(reverseConnections), 0, reverseConnections')
    /\ UNCHANGED <<callback, nonPoolVars>>

\* Lines 1100-1106: readLine() returns the line of the relay that claims the
\* connection.
ReverseClaimed ==
    /\ reverseConnections.unclaimed > 0
    /\ reverseConnections' = [reverseConnections EXCEPT !.unclaimed = @ - 1,
                                                        !.claimed = @ + 1]
    /\ poolLast' = PoolEvent("claim", Size(reverseConnections), 0, reverseConnections')
    /\ UNCHANGED <<callback, nonPoolVars>>

\* The 'close' handler without its test of claimed: every close tops the set up.
ReverseClosed_Always ==
    /\ \E claimed \in BOOLEAN :
          /\ IF claimed THEN reverseConnections.claimed > 0
                        ELSE reverseConnections.unclaimed > 0
          /\ reverseConnections' =
                 ensureReverseConnections(
                     IF claimed THEN [reverseConnections EXCEPT !.claimed = @ - 1]
                                ELSE [reverseConnections EXCEPT !.unclaimed = @ - 1])
          /\ poolLast' = PoolEvent(IF claimed THEN "close claimed" ELSE "close unclaimed",
                                    Size(reverseConnections), 1, reverseConnections')
    /\ UNCHANGED <<callback, nonPoolVars>>

\* The 'close' handler without its call of ensureReverseConnections().
ReverseClosed_NoTopUp ==
    /\ \E claimed \in BOOLEAN :
          /\ IF claimed THEN reverseConnections.claimed > 0
                        ELSE reverseConnections.unclaimed > 0
          /\ reverseConnections' =
                 IF claimed THEN [reverseConnections EXCEPT !.claimed = @ - 1]
                            ELSE [reverseConnections EXCEPT !.unclaimed = @ - 1]
          /\ poolLast' = PoolEvent(IF claimed THEN "close claimed" ELSE "close unclaimed",
                                    Size(reverseConnections), 1, reverseConnections')
    /\ UNCHANGED <<callback, nonPoolVars>>

\* Lines 1092-1098: the 'close' event of a connection of the set.
ReverseClosed ==
    /\ \E claimed \in BOOLEAN :
          IF claimed
          THEN /\ reverseConnections.claimed > 0
               /\ reverseConnections' =
                      ensureReverseConnections([reverseConnections EXCEPT !.claimed = @ - 1])
               /\ poolLast' = PoolEvent("close claimed", Size(reverseConnections), 1,
                                        reverseConnections')
          ELSE /\ reverseConnections.unclaimed > 0
               /\ reverseConnections' = [reverseConnections EXCEPT !.unclaimed = @ - 1]
               /\ poolLast' = PoolEvent("close unclaimed", Size(reverseConnections), 1,
                                        reverseConnections')
    /\ UNCHANGED <<callback, nonPoolVars>>

(***************************************************************************)
(* createReverseConnection(), lines 1085-1120, call by call.  The first    *)
(* MaxClients calls are followed: pc is "none" before the call, "readLine" *)
(* while it awaits the line of the relay, "claimed" and "connected" at its *)
(* two awaits of process.nextTick, "piped" after client.pipe(local)        *)
(* .pipe(client), and "returned" when readLine() threw.  written is what   *)
(* was written to the socket, local the connection to the local server (0  *)
(* when there is none), closed whether the 'close' event was emitted,      *)
(* member whether the socket is in the set this.reverseConnections.        *)
(* readLine() (common/src/read-stream) returns the first line received and *)
(* throws when the socket ends or closes before one.                       *)
(***************************************************************************)
MaxClients == 3

Clients == 1 .. MaxClients

NoClient == [pc |-> "none", claimed |-> FALSE, closed |-> FALSE, written |-> <<>>,
             local |-> 0, member |-> FALSE]

\* Lines 1086-1101 with client.pipe() in place of client.write(): nothing is written.
createReverseClient_NoWrite(id) ==
    [NoClient EXCEPT !.pc = "readLine", !.member = TRUE]

\* Lines 1086-1101: the socket is made and added to the set, the close handler is
\* set and the reverse line is written.
createReverseClient(id) ==
    [NoClient EXCEPT !.pc = "readLine", !.member = TRUE,
                     !.written = <<"reverse:" \o id>>]

\* The 'close' handler without its this.reverseConnections.delete(client).
onClose_NoDelete(client) == [client EXCEPT !.closed = TRUE]

\* Lines 1092-1094: the 'close' handler deletes the socket from the set.
onClose(client) == [client EXCEPT !.closed = TRUE, !.member = FALSE]

\* readLine(client), awaited at line 1102: it returns when a line was received and
\* throws when the socket has ended before one.
readLine(ended) == [threw |-> ended]

\* Lines 1101-1106: where the call stands after its await of readLine().
afterReadLine(read) == IF read.threw THEN "returned" ELSE "claimed"

\* The calls that a run of ensureReverseConnections() makes are followed as long as
\* there are calls left to follow: created is how many calls it made.
Followed(cl, created) ==
    {c \in Clients : /\ cl[c].pc = "none"
                     /\ Cardinality({d \in Clients : d < c /\ cl[d].pc = "none"}) < created}

ensureReverseClients(cl, rc, id) ==
    LET created == Size(ensureReverseConnections(rc)) - Size(rc) IN
    [c \in Clients |-> IF c \in Followed(cl, created) THEN createReverseClient(id)
                       ELSE cl[c]]

\* Lines 921-935: a callback message or the handshake of a mux stream tops the set
\* up.
ReverseEnsured ==
    /\ Size(reverseConnections) < POOL_SIZE
    /\ reverseConnections' = ensureReverseConnections(reverseConnections)
    /\ clients' = ensureReverseClients(clients, reverseConnections, registrationId)
    /\ UNCHANGED <<locals, callback, poolLast, controllerVars, whitelistVars, testVars, startupVars, thermostatVars>>

\* Lines 1101-1106: readLine() returns the line of the relay.
ReverseLine(c) ==
    /\ clients[c].pc = "readLine"
    /\ ~clients[c].closed
    /\ clients' = [clients EXCEPT ![c].pc = afterReadLine(readLine(FALSE)),
                                  ![c].claimed = TRUE]
    /\ reverseConnections' = [reverseConnections EXCEPT !.unclaimed = @ - 1,
                                                        !.claimed = @ + 1]
    /\ UNCHANGED <<locals, callback, poolLast, controllerVars, whitelistVars, testVars, startupVars, thermostatVars>>

\* Lines 1109-1116: after the first process.nextTick, the port of this.server is
\* read and net.connect() opens a connection to it.
ReverseLocal(c) ==
    /\ clients[c].pc = "claimed"
    /\ locals' = locals + 1
    /\ clients' = [clients EXCEPT ![c].pc = "connected", ![c].local = locals + 1]
    /\ UNCHANGED <<poolVars, controllerVars, whitelistVars, testVars, startupVars, thermostatVars>>

\* Lines 1117-1119: after the second process.nextTick, the two sockets are piped
\* into each other.
ReversePiped(c) ==
    /\ clients[c].pc = "connected"
    /\ clients' = [clients EXCEPT ![c].pc = "piped"]
    /\ UNCHANGED <<locals, poolVars, controllerVars, whitelistVars, testVars, startupVars, thermostatVars>>

\* Line 1119: the pipe writes what the local server sends to the socket.
ReverseData(c) ==
    /\ clients[c].pc = "piped"
    /\ ~clients[c].closed
    /\ Len(clients[c].written) < 2
    /\ clients' = [clients EXCEPT ![c].written = Append(@, "response")]
    /\ UNCHANGED <<locals, poolVars, controllerVars, whitelistVars, testVars, startupVars, thermostatVars>>

\* Lines 1092-1098 and 1101-1105: the socket closes (after an error, or because
\* the relay ended it); the close handler deletes it from the set and, if it was
\* claimed, tops the set up; a readLine() that is awaited throws, and the call
\* returns.
ReverseEnded(c) ==
    /\ clients[c].pc # "none"
    /\ ~clients[c].closed
    /\ LET ended == [clients EXCEPT ![c] = onClose(@),
                                     ![c].pc = IF @ = "readLine"
                                               THEN afterReadLine(readLine(TRUE))
                                               ELSE @]
           deleted == IF clients[c].claimed
                      THEN [reverseConnections EXCEPT !.claimed = @ - 1]
                      ELSE [reverseConnections EXCEPT !.unclaimed = @ - 1]
       IN  IF clients[c].claimed
           THEN /\ reverseConnections' = ensureReverseConnections(deleted)
                /\ clients' = ensureReverseClients(ended, deleted, registrationId)
           ELSE /\ reverseConnections' = deleted
                /\ clients' = ended
    /\ UNCHANGED <<locals, callback, poolLast, controllerVars, whitelistVars, testVars, startupVars, thermostatVars>>

InitPool ==
    /\ reverseConnections = NoConnections
    /\ callback = NoCallbacks
    /\ poolLast = NoPoolEvent
    /\ clients = [c \in Clients |-> NoClient]
    /\ locals = 0

(***************************************************************************)
(* The URL conversions, lines 42-49, 518-554 and 716-741.  A host is a     *)
(* name and a port (0 when the host has none); a URL is the host and the   *)
(* path prefix of its base URL, the path and the query string (the tokens  *)
(* of the relay, "" when it has none).                                     *)
(***************************************************************************)
SCRYPTED_SERVER == "home.scrypted.app"
SCRYPTED_CLOUD_MESSAGE_PATH == "/_punch/cloudmessage"

Host(name, port) == [name |-> name, port |-> port]
NoHost == Host("", 0)

Paths == {"/push/a", "/endpoint/b"}
ScopeTokens == {"user_token=t1", "user_token=t2"}

Base(host, prefix) == [host |-> host, prefix |-> prefix]
Url(base, path, tokens) ==
    [host |-> base.host, prefix |-> base.prefix, path |-> path, tokens |-> tokens]
NoUrl == Url(Base(NoHost, ""), "", "")

\* getSSLHostname(), lines 716-722; NoHost when the result is falsy.
getSSLHostname(v, tunnel) ==
    IF v.forwardingMode = "Custom Domain" /\ v.hostname # ""
    THEN Host(v.hostname, 0)
    ELSE IF v.cloudflaredTunnelToken # "" /\ tunnel # ""
    THEN Host(tunnel, 0)
    ELSE IF v.duckDnsCertValid /\ v.duckDnsHostname # "" /\ v.upnpPort # 0
    THEN Host(v.duckDnsHostname, v.upnpPort)
    ELSE NoHost

\* getHostname(), lines 724-726.
getHostname(v, tunnel) ==
    IF getSSLHostname(v, tunnel) # NoHost THEN getSSLHostname(v, tunnel)
    ELSE Host(SCRYPTED_SERVER, 0)

\* What a conversion leaves when it ends: how it ended and the URL it returned.
Converted(kind, url) == [kind |-> kind, url |-> url]

\* whitelist() without its test of the cache.
whitelist_NoCacheTest(v, tunnel, cache, path, baseUrl) ==
    IF getSSLHostname(v, tunnel) # NoHost
    THEN Converted("direct", Url(baseUrl, path, ""))
    ELSE IF v.token_info = ""
    THEN Converted("not logged in", NoUrl)
    ELSE Converted("scope", NoUrl)

\* whitelist(localUrl, ttl, baseUrl), lines 518-537, up to its await of the scope
\* call of the relay; path is the pathname of localUrl.
whitelist(v, tunnel, cache, path, baseUrl) ==
    IF getSSLHostname(v, tunnel) # NoHost
    THEN Converted("direct", Url(baseUrl, path, ""))
    ELSE IF cache[path] # NoUrl
    THEN Converted("cached", cache[path])
    ELSE IF v.token_info = ""
    THEN Converted("not logged in", NoUrl)
    ELSE Converted("scope", NoUrl)

Conversions == 1..MaxConversions
NoConversion == [pc |-> "idle", path |-> "", base |-> Base(NoHost, "")]
\* base is the baseUrl the whitelist() call was given (none for a conversion that
\* made no such call).
NoConv == [path |-> "", kind |-> "none", url |-> NoUrl, base |-> Base(NoHost, ""),
           sync |-> FALSE, tick |-> 0]

\* A whitelist() call in slot c: it returns or throws at once, or awaits the relay.
Whitelist(c, path, baseUrl) ==
    LET res == whitelist(values, cloudflareTunnel, whitelisted, path, baseUrl) IN
    /\ conversions[c].pc = "idle"
    /\ \A d \in Conversions : d < c => conversions[d].pc # "idle"
    /\ IF res.kind = "scope"
       THEN /\ conversions' = [conversions EXCEPT
                                  ![c] = [pc |-> "scope", path |-> path, base |-> baseUrl]]
            /\ UNCHANGED lastConv
       ELSE /\ lastConv' = [path |-> path, kind |-> res.kind, url |-> res.url,
                            base |-> baseUrl, sync |-> TRUE, tick |-> 1 - lastConv.tick]
            /\ UNCHANGED conversions
    /\ UNCHANGED whitelisted

\* ScryptedPush.convert(), lines 42-49, of the push endpoint "a".
PushConvert(c) ==
    /\ IF getSSLHostname(values, cloudflareTunnel) # NoHost
       THEN /\ conversions[c].pc = "idle"
            /\ \A d \in Conversions : d < c => conversions[d].pc # "idle"
            /\ lastConv' = [path |-> "/push/a", kind |-> "cloud message",
                            base |-> Base(NoHost, ""),
                            url |-> Url(Base(getSSLHostname(values, cloudflareTunnel),
                                             "/endpoint/cloudMessageToken"), "/a", ""),
                            sync |-> TRUE, tick |-> 1 - lastConv.tick]
            /\ UNCHANGED <<whitelisted, conversions>>
       ELSE Whitelist(c, "/push/a",
                      Base(getHostname(values, cloudflareTunnel), SCRYPTED_CLOUD_MESSAGE_PATH))
    /\ UNCHANGED nonWhitelistVars

\* ScryptedCloud.convert(), lines 728-741, of a local URL with the given path.
Convert(c) ==
    /\ \E path \in Paths, shortLived \in BOOLEAN :
          IF cloudflareTunnel # "" /\ values.forwardingMode # "Custom Domain" /\ shortLived
          THEN /\ conversions[c].pc = "idle"
               /\ \A d \in Conversions : d < c => conversions[d].pc # "idle"
               /\ lastConv' = [path |-> path, kind |-> "short-lived",
                               base |-> Base(NoHost, ""),
                               url |-> Url(Base(Host(cloudflareTunnel, 0), ""), path, ""),
                               sync |-> TRUE, tick |-> 1 - lastConv.tick]
               /\ UNCHANGED <<whitelisted, conversions>>
          ELSE Whitelist(c, path, Base(getHostname(values, cloudflareTunnel), ""))
    /\ UNCHANGED nonWhitelistVars

\* Lines 538-553: the scope call of the relay returns its tokens, the URL is stored
\* and returned; or the call fails and whitelist() throws.
ScopeReturned(c) ==
    /\ conversions[c].pc = "scope"
    /\ conversions' = [conversions EXCEPT ![c] = NoConversion]
    /\ \E tokens \in ScopeTokens \cup {"failed"} :
          IF tokens = "failed"
          THEN /\ lastConv' = [path |-> conversions[c].path, kind |-> "failed",
                               url |-> NoUrl, base |-> conversions[c].base,
                               sync |-> FALSE, tick |-> 1 - lastConv.tick]
               /\ UNCHANGED whitelisted
          ELSE LET url == Url(conversions[c].base, conversions[c].path, tokens) IN
               /\ whitelisted' = [whitelisted EXCEPT ![conversions[c].path] = url]
               /\ lastConv' = [path |-> conversions[c].path, kind |-> "fetched",
                               url |-> url, base |-> conversions[c].base,
                               sync |-> FALSE, tick |-> 1 - lastConv.tick]
    /\ UNCHANGED nonWhitelistVars

InitWhitelisted ==
    /\ whitelisted = [p \in Paths |-> NoUrl]
    /\ conversions = [c \in Conversions |-> NoConversion]
    /\ lastConv = NoConv

(***************************************************************************)
(* The self-test of the port forward: onRequest(), lines 684-707, and      *)
(* testPortForward(), lines 425-454.  The URL of a request is the sequence *)
(* of the segments its "/" characters separate, the last of them with the  *)
(* query string if the URL has one.                                        *)
(***************************************************************************)
RandomTokens == {"3q2+7w==", "wN7vkA=="}

TEST_PORT_FORWARD == <<"testPortForward">>

RequestUrls == {<<"endpoint", "public", "testPortForward">>,
                <<"testPortForward">>,
                <<"endpoint", "public", "testPortForward?probe=1">>,
                <<"endpoint", "testPortForward", "public">>,
                <<"endpoint", "public">>,
                <<>>}

\* String.prototype.endsWith for a suffix that begins with "/".
endsWith(url, suffix) ==
    /\ Len(url) >= Len(suffix)
    /\ SubSeq(url, Len(url) - Len(suffix) + 1, Len(url)) = suffix

NoResponse == [url |-> <<>>, body |-> "", cors |-> FALSE, tick |-> 0]

\* onRequest(), lines 684-699: the answer sent for the request.  (The delivery of
\* a cloud message, lines 701-707, sends nothing more.)
onRequest(url) ==
    IF endsWith(url, TEST_PORT_FORWARD)
    THEN [url |-> url, body |-> randomBytes, cors |-> FALSE, tick |-> 1 - lastResponse.tick]
    ELSE [url |-> url, body |-> "", cors |-> TRUE, tick |-> 1 - lastResponse.tick]

TEST_SUCCEEDED_ALERT == "Port Forward Test Succeeded."

\* `Port Forward Test Failed: ${e}`, line 452, for each error the try block throws.
TEST_FAILED_ALERT(cause) ==
    CASE cause = "Port forwarding is disabled." ->
            "Port Forward Test Failed: Error: Port forwarding is disabled."
      [] cause = "Hostname is required for port Custom Domain setup." ->
            "Port Forward Test Failed: Error: Hostname is required for port Custom Domain setup."
      [] cause = "Port 443 requires Custom Domain configuration." ->
            "Port Forward Test Failed: Error: Port 443 requires Custom Domain configuration."
      [] cause = "Server received data that did not match this server." ->
            "Port Forward Test Failed: Error: Server received data that did not match this server."
      [] cause = "relay error" -> "Port Forward Test Failed: Error: relay error"
      [] OTHER -> "Port Forward Test Failed: Error: fetch failed"

Tests == 1..MaxTests
NoTest == [pc |-> "idle", hostname |-> "", has_port |-> FALSE, upnp_port |-> 0]
NoTestOutcome == [result |-> "none", cause |-> "", data |-> "", tick |-> 0]

TestOutcome(result, cause, data) ==
    [result |-> result, cause |-> cause, data |-> data, tick |-> 1 - testOutcome.tick]

\* The catch block of testPortForward(), lines 450-453.
TestFailed(a, cause, data) ==
    [alerts |-> a \cup {TEST_FAILED_ALERT(cause)},
     outcome |-> TestOutcome("failed", cause, data)]

\* What the relay's /_punch/curl call leaves: httpFetch() throws, or the body has
\* an error, or it has the data the relay fetched.
CurlResponses ==
    {[kind |-> "throws", data |-> ""], [kind |-> "error", data |-> ""]}
        \cup [kind : {"data"}, data : RandomTokens \cup {""}]

\* testPortForward() without its comparison of the data with this.randomBytes.
testPortForwardResponse_NoCompare(a, resp) ==
    IF resp.kind = "throws" THEN TestFailed(a, "fetch failed", "")
    ELSE IF resp.kind = "error" THEN TestFailed(a, "relay error", "")
    ELSE [alerts |-> a \cup {TEST_SUCCEEDED_ALERT},
          outcome |-> TestOutcome("succeeded", "", resp.data)]

\* testPortForward() after its httpFetch(), lines 443-449.
testPortForwardResponse(a, resp) ==
    IF resp.kind = "throws" THEN TestFailed(a, "fetch failed", "")
    ELSE IF resp.kind = "error" THEN TestFailed(a, "relay error", "")
    ELSE IF resp.data # randomBytes
    THEN TestFailed(a, "Server received data that did not match this server.", resp.data)
    ELSE [alerts |-> a \cup {TEST_SUCCEEDED_ALERT},
          outcome |-> TestOutcome("succeeded", "", resp.data)]

\* A request reaches the plugin's endpoint.
OnRequest ==
    /\ \E url \in RequestUrls : lastResponse' = onRequest(url)
    /\ UNCHANGED <<randomBytes, tests, testOutcome, controllerVars, poolVars,
                   whitelistVars, reverseVars, startupVars, thermostatVars>>

\* The Test Port Forward button, line 207: testPortForward() up to its await of
\* getPath(), lines 426-431.
TestPortForward(t) ==
    /\ tests[t].pc = "idle"
    /\ \A u \in Tests : u < t => tests[u].pc # "idle"
    /\ IF values.forwardingMode = "Disabled"
       THEN LET res == TestFailed(alerts, "Port forwarding is disabled.", "") IN
            /\ alerts' = res.alerts
            /\ testOutcome' = res.outcome
            /\ UNCHANGED tests
       ELSE /\ tests' = [tests EXCEPT ![t] = [NoTest EXCEPT !.pc = "path"]]
            /\ UNCHANGED <<alerts, testOutcome>>
    /\ UNCHANGED <<randomBytes, lastResponse, values, authority, registrationId, upnpStatus,
                   tunnelVars, timerVars, procVars, poolVars, whitelistVars, reverseVars,
                   startupVars, thermostatVars>>

\* Lines 433-442: the authority is computed and the relay is asked to fetch the
\* test URL.
TestPath(t) ==
    /\ tests[t].pc = "path"
    /\ LET auth == getAuthority(values) IN
       IF auth.threw
       THEN LET res == TestFailed(getAuthorityAlerts(values, alerts), auth.error, "") IN
            /\ alerts' = res.alerts
            /\ testOutcome' = res.outcome
            /\ tests' = [tests EXCEPT ![t] = NoTest]
       ELSE /\ tests' = [tests EXCEPT ![t] =
                            [pc |-> "curl",
                             hostname |-> IF auth.hostname = "" THEN "localhost"
                                          ELSE auth.hostname,
                             has_port |-> auth.has_port, upnp_port |-> auth.upnp_port]]
            /\ UNCHANGED <<alerts, testOutcome>>
    /\ UNCHANGED <<randomBytes, lastResponse, values, authority, registrationId, upnpStatus,
                   tunnelVars, timerVars, procVars, poolVars, whitelistVars, reverseVars,
                   startupVars, thermostatVars>>

\* Lines 443-453: the relay's answer.
TestCurl(t) ==
    /\ tests[t].pc = "curl"
    /\ \E resp \in CurlResponses :
          LET res == testPortForwardResponse(alerts, resp) IN
          /\ alerts' = res.alerts
          /\ testOutcome' = res.outcome
    /\ tests' = [tests EXCEPT ![t] = NoTest]
    /\ UNCHANGED <<randomBytes, lastResponse, values, authority, registrationId, upnpStatus,
                   tunnelVars, timerVars, procVars, poolVars, whitelistVars, reverseVars,
                   startupVars, thermostatVars>>

InitNoTest ==
    /\ tests = [t \in Tests |-> NoTest]
    /\ lastResponse = NoResponse
    /\ testOutcome = NoTestOutcome

(***************************************************************************)
(* The reachability controller: the settings as persisted by an earlier    *)
(* run, no registration persisted yet.                                     *)
(***************************************************************************)
ControllerSettings ==
    {v \in [forwardingMode : ForwardingModes,
            hostname : Hostnames,
            duckDnsToken : DuckTokens,
            duckDnsHostname : DuckHostnames,
            upnpPort : {0, HTTPS_PORT, 40000},
            token_info : {"", "token"},
            connectHomeScryptedApp : BOOLEAN,
            lastPersistedRegistrationId : {""},
            lastPersistedUpnpPort : {0},
            lastPersistedIp : {""},
            cloudflareEnabled : {TRUE},
            cloudflaredTunnelToken : {""},
            duckDnsCertValid : {FALSE},
            securePort : SecurePorts] :
        (v.duckDnsToken = "") = (v.duckDnsHostname = "")}

InitNoTunnel ==
    /\ cloudflareTunnel = ""
    /\ cloudflared = NotStarted

InitNoCall ==
    /\ alerts = {}
    /\ authority = NoAuthority
    /\ registrationId = "r1"
    /\ upnpStatus = "Starting"
    /\ reregisterTimer = FALSE
    /\ timers = 0
    /\ mapFailed = FALSE
    /\ mapped = {}
    /\ debounce = [triggers |-> 0, bursts |-> 0, runs |-> 0, changed |-> {},
                   put |-> NoPut]
    /\ procs = [i \in Procs |-> Idle]
    /\ started = 0
    /\ regOutcome = NoOutcome
    /\ upfPrev = NoCall
    /\ uncaught = {}
    /\ externalAddresses = NotAnnounced
    /\ InitPool
    /\ InitWhitelisted
    /\ InitNoTest

InitIdle ==
    /\ InitNoTunnel
    /\ InitNoCall
    /\ boot = Booted
    /\ thermostat = NoThermostat
    /\ randomBytes = "3q2+7w=="

Init ==
    /\ values \in ControllerSettings
    /\ InitIdle

Next ==
    \/ \E i \in Procs : IntervalRefresh(i)
    \/ \E i \in Procs : LocalAddresses(i)
    \/ \E i \in Procs : PortMapped(i)
    \/ \E i \in Procs : DuckDnsUpdated(i)
    \/ \E i \in Procs : PunchIp(i)
    \/ \E i \in Procs : RegistrationIdKnown(i)
    \/ \E i \in Procs : Registered(i)
    \/ \E i \in Procs : AfterRegistered(i)
    \/ \E i \in Procs : Register(i)
    \/ startCloudflared
    \/ CloudflaredChildExited
    \/ \E i \in Procs : CloudflaredUrl(i)
    \/ \E i \in Procs : CloudflaredNoUrl(i)
    \/ \E i \in Procs : CloudflaredExited(i)
    \/ \E i \in Procs : ExternalAddressesSet(i)

Spec == Init /\ [][Next]_vars

(***************************************************************************)
(* The refresh cycles of the 30 minute interval on their own, lines        *)
(* 319-320: no setting is put and no tunnel is started.                    *)
(***************************************************************************)
NextInterval ==
    \/ \E i \in Procs : IntervalRefresh(i)
    \/ \E i \in Procs : LocalAddresses(i)
    \/ \E i \in Procs : PortMapped(i)
    \/ \E i \in Procs : DuckDnsUpdated(i)
    \/ \E i \in Procs : PunchIp(i)
    \/ \E i \in Procs : RegistrationIdKnown(i)
    \/ \E i \in Procs : Registered(i)
    \/ \E i \in Procs : AfterRegistered(i)

SpecInterval == Init /\ [][NextInterval]_vars

(***************************************************************************)
(* The tunnel supervisor, with the updateExternalAddresses() calls it      *)
(* makes: an installation that is logged in, with or without the tunnel    *)
(* feature.  The event loop runs every callback that is ready, hence the   *)
(* weak fairness.                                                          *)
(***************************************************************************)
TunnelSettings ==
    [forwardingMode : ForwardingModes,
     hostname : Hostnames,
     duckDnsToken : {""},
     duckDnsHostname : {""},
     upnpPort : {40000},
     token_info : {"token"},
     connectHomeScryptedApp : {TRUE},
     lastPersistedRegistrationId : {""},
     lastPersistedUpnpPort : {0},
     lastPersistedIp : {""},
     cloudflareEnabled : BOOLEAN,
     cloudflaredTunnelToken : {""},
     duckDnsCertValid : {FALSE},
     securePort : {LISTEN_PORT}]

InitTunnel ==
    /\ values \in TunnelSettings
    /\ InitIdle

NextTunnel ==
    \/ startCloudflared
    \/ CloudflaredInstallFailed
    \/ CloudflaredChildExited
    \/ \E i \in Procs : CloudflaredUrl(i)
    \/ \E i \in Procs : CloudflaredNoUrl(i)
    \/ \E i \in Procs : CloudflaredExited(i)
    \/ \E i \in Procs : ExternalAddressesSet(i)
    \/ \E i \in Procs : PunchIp(i)
    \/ \E i \in Procs : RegistrationIdKnown(i)
    \/ \E i \in Procs : Registered(i)
    \/ \E i \in Procs : AfterRegistered(i)

SpecTunnel == InitTunnel /\ [][NextTunnel]_vars /\ WF_vars(NextTunnel)

(***************************************************************************)
(* The start attempts of the tunnel with the error stream of the child:    *)
(* an installation with the tunnel feature, whose child writes any lines.  *)
(***************************************************************************)
InitStderr ==
    /\ values \in {v \in TunnelSettings : v.forwardingMode = "Disabled" /\ v.hostname = ""
                                           /\ v.cloudflareEnabled}
    /\ InitIdle

NextStderr ==
    \/ startCloudflared
    \/ CloudflaredStderr
    \/ CloudflaredChildExited
    \/ CloudflaredOrphanExited
    \/ \E i \in Procs : CloudflaredUrl(i)
    \/ \E i \in Procs : CloudflaredNoUrl(i)
    \/ \E i \in Procs : CloudflaredExited(i)
    \/ \E i \in Procs : ExternalAddressesSet(i)

SpecStderr == InitStderr /\ [][NextStderr]_vars

\* The same with the event loop running every callback that is ready.
SpecDiscovery == InitStderr /\ [][NextStderr]_vars /\ WF_vars(NextStderr)

(***************************************************************************)
(* The reverse connection pool on its own: it reads no setting.            *)
(***************************************************************************)
InitPoolOnly ==
    /\ values \in {v \in TunnelSettings : v.forwardingMode = "UPNP" /\ v.hostname = ""
                                           /\ v.cloudflareEnabled}
    /\ InitIdle

NextPool ==
    \/ CallbackMessage
    \/ BackoffElapsed
    \/ CallbackConnect
    \/ MuxHandshake
    \/ ReverseClaimed
    \/ ReverseClosed

SpecPool == InitPoolOnly /\ [][NextPool]_vars

(***************************************************************************)
(* The reverse connections one by one.                                     *)
(***************************************************************************)
NextReverse ==
    \/ ReverseEnsured
    \/ \E c \in Clients : ReverseLine(c)
    \/ \E c \in Clients : ReverseLocal(c)
    \/ \E c \in Clients : ReversePiped(c)
    \/ \E c \in Clients : ReverseData(c)
    \/ \E c \in Clients : ReverseEnded(c)

SpecReverse == InitPoolOnly /\ [][NextReverse]_vars

(***************************************************************************)
(* The URL conversions, with the settings and the tunnel that decide       *)
(* whether there is an SSL hostname: the tunnel is up or not, the mode,    *)
(* the hostname and the port are put while conversions are made.           *)
(***************************************************************************)
WhitelistSettings ==
    [forwardingMode : {"UPNP", "Custom Domain"},
     hostname : {""},
     duckDnsToken : {""},
     duckDnsHostname : {""},
     upnpPort : {40000},
     token_info : {"", "token"},
     connectHomeScryptedApp : {TRUE},
     lastPersistedRegistrationId : {""},
     lastPersistedUpnpPort : {0},
     lastPersistedIp : {""},
     cloudflareEnabled : {TRUE},
     cloudflaredTunnelToken : {"", "tunneltoken"},
     duckDnsCertValid : {FALSE},
     securePort : {LISTEN_PORT}]

InitWhitelist ==
    /\ values \in WhitelistSettings
    /\ cloudflareTunnel \in TunnelHosts
    /\ cloudflared = IF cloudflareTunnel = ""
                     THEN [NotStarted EXCEPT !.pc = "starting", !.attempts = 1]
                     ELSE [NotStarted EXCEPT !.pc = "running", !.attempts = 1]
    /\ InitNoCall
    /\ boot = Booted
    /\ thermostat = NoThermostat
    /\ randomBytes = "3q2+7w=="

NextWhitelist ==
    \/ \E c \in Conversions : PushConvert(c)
    \/ \E c \in Conversions : Convert(c)
    \/ \E c \in Conversions : ScopeReturned(c)
    \/ PutHostname

SpecWhitelist == InitWhitelist /\ [][NextWhitelist]_vars

(***************************************************************************)
(* The self-test: the token is drawn at startup, requests reach the        *)
(* endpoint and the Test Port Forward button is pressed, in every          *)
(* forwarding mode.                                                        *)
(***************************************************************************)
SelfTestSettings ==
    [forwardingMode : ForwardingModes,
     hostname : Hostnames,
     duckDnsToken : {""},
     duckDnsHostname : {""},
     upnpPort : {HTTPS_PORT, 40000},
     token_info : {"token"},
     connectHomeScryptedApp : {TRUE},
     lastPersistedRegistrationId : {""},
     lastPersistedUpnpPort : {0},
     lastPersistedIp : {""},
     cloudflareEnabled : {TRUE},
     cloudflaredTunnelToken : {""},
     duckDnsCertValid : {FALSE},
     securePort : {LISTEN_PORT}]

InitSelfTest ==
    /\ values \in SelfTestSettings
    /\ randomBytes \in RandomTokens
    /\ InitNoTunnel
    /\ InitNoCall
    /\ boot = Booted
    /\ thermostat = NoThermostat

NextSelfTest ==
    \/ OnRequest
    \/ \E t \in Tests : TestPortForward(t)
    \/ \E t \in Tests : TestPath(t)
    \/ \E t \in Tests : TestCurl(t)

SpecSelfTest == InitSelfTest /\ [][NextSelfTest]_vars

(***************************************************************************)
(* The startup: stored settings with or without a token and a persisted    *)
(* registration id, with or without a token in the environment.            *)
(***************************************************************************)
StartupSettings ==
    [forwardingMode : {"UPNP", "Router Forward"},
     hostname : {""},
     duckDnsToken : {""},
     duckDnsHostname : {""},
     upnpPort : {40000},
     token_info : {"", "token"},
     connectHomeScryptedApp : {TRUE},
     lastPersistedRegistrationId : {"", "r1"},
     lastPersistedUpnpPort : {0, 40000},
     lastPersistedIp : {""},
     cloudflareEnabled : {TRUE},
     cloudflaredTunnelToken : {""},
     duckDnsCertValid : {FALSE},
     securePort : {LISTEN_PORT}]

InitStartup ==
    /\ \E v \in StartupSettings, envToken \in EnvTokens :
          /\ values = constructor(v, envToken).v
          /\ boot = [NotBooted EXCEPT !.env = constructor(v, envToken).env]
    /\ InitNoTunnel
    /\ InitNoCall
    /\ randomBytes = "3q2+7w=="
    /\ thermostat = NoThermostat

NextStartup ==
    \/ \E i \in Procs : StartupRegistrationId(i)
    \/ StartupProxyUp
    \/ \E i \in Procs : StartupObserve(i)
    \/ \E i \in Procs : IntervalRefresh(i)
    \/ \E i \in Procs : Register(i)
    \/ \E i \in Procs : LocalAddresses(i)
    \/ \E i \in Procs : PortMapped(i)
    \/ \E i \in Procs : PunchIp(i)
    \/ \E i \in Procs : RegistrationIdKnown(i)
    \/ \E i \in Procs : Registered(i)
    \/ \E i \in Procs : AfterRegistered(i)

SpecStartup == InitStartup /\ [][NextStartup]_vars

(***************************************************************************)
(* The thermostat: a sensor and one or both of the switches are assigned   *)
(* (updateSettings(), lines 84-131, registers the listeners only then),    *)
(* both switches are off; the Cloud plugin does nothing.                   *)
(***************************************************************************)
InitThermostat ==
    /\ values \in {v \in TunnelSettings : v.forwardingMode = "Disabled" /\ v.hostname = ""
                                           /\ ~v.cloudflareEnabled}
    /\ InitNoTunnel
    /\ InitNoCall
    /\ boot = Booted
    /\ randomBytes = "3q2+7w=="
    /\ \E has \in [Devices -> BOOLEAN], temperature \in Temperatures :
          /\ \E d \in Devices : has[d]
          /\ thermostat = [NoThermostat EXCEPT !.has = has, !.temperature = temperature]

NextThermostat ==
    \/ TemperatureEvent
    \/ SetThermostatSetpoint
    \/ SetThermostatSetpointLow
    \/ SetThermostatSetpointHigh
    \/ SetThermostatMode
    \/ \E d \in Devices : OnOffEvent(d)

SpecThermostat == InitThermostat /\ [][NextThermostat]_vars

(***************************************************************************)
(* The controller with its settings surface: a fresh installation that is  *)
(* logged in, whose settings are then put one after the other.             *)
(***************************************************************************)
InitSettings ==
    /\ values = [forwardingMode |-> "UPNP", hostname |-> "", duckDnsToken |-> "",
                 duckDnsHostname |-> "", upnpPort |-> 0, token_info |-> "token",
                 connectHomeScryptedApp |-> TRUE, lastPersistedRegistrationId |-> "",
                 lastPersistedUpnpPort |-> 0, lastPersistedIp |-> "",
                 cloudflareEnabled |-> TRUE, cloudflaredTunnelToken |-> "",
                 duckDnsCertValid |-> FALSE,
                 securePort |-> LISTEN_PORT]
    /\ InitIdle

NextSettings ==
    \/ \E i \in Procs : IntervalRefresh(i)
    \/ \E i \in Procs : TimerRefresh(i)
    \/ \E i \in Procs : LocalAddresses(i)
    \/ \E i \in Procs : PortMapped(i)
    \/ \E i \in Procs : PunchIp(i)
    \/ \E i \in Procs : RegistrationIdKnown(i)
    \/ \E i \in Procs : Registered(i)
    \/ \E i \in Procs : AfterRegistered(i)
    \/ PutForwardingMode
    \/ PutHostname
    \/ PutUpnpPort

SpecSettings == InitSettings /\ [][NextSettings]_vars

(***************************************************************************)
(* The port choice of refreshPortForward(): an installation without a      *)
(* persisted upnpPort, one refresh cycle at a time, over the whole range   *)
(* of Math.random().                                                       *)
(***************************************************************************)
RandomPortSettings ==
    [forwardingMode : {"UPNP", "Router Forward", "Disabled"},
     hostname : {""},
     duckDnsToken : {""},
     duckDnsHostname : {""},
     upnpPort : {0},
     token_info : {"token"},
     connectHomeScryptedApp : {TRUE},
     lastPersistedRegistrationId : {""},
     lastPersistedUpnpPort : {0},
     lastPersistedIp : {""},
     cloudflareEnabled : {FALSE},
     cloudflaredTunnelToken : {""},
     duckDnsCertValid : {FALSE},
     securePort : {LISTEN_PORT}]

InitRandomPort ==
    /\ values \in RandomPortSettings
    /\ InitIdle

NextRandomPort ==
    \/ \E i \in Procs : RefreshRandom(i)
    \/ \E i \in Procs : LocalAddresses(i)

SpecRandomPort == InitRandomPort /\ [][NextRandomPort]_vars

(***************************************************************************)
(* getAuthority() as a function of the settings: every combination of the  *)
(* settings it reads, and a call of it by one of its callers               *)
(* (testPortForward, sendRegistrationId, getOauthUrl).  The outcome is     *)
(* kept in authority.                                                      *)
(***************************************************************************)
CallGetAuthority ==
    /\ authority' = getAuthority(values)
    /\ alerts' = getAuthorityAlerts(values, alerts)
    /\ UNCHANGED <<otherVars, values, tunnelVars, registrationId, upnpStatus, timerVars, procVars>>

InitAuthority ==
    /\ values \in Settings
    /\ InitIdle

NextAuthority == CallGetAuthority

SpecAuthority == InitAuthority /\ [][NextAuthority]_vars

(***************************************************************************)
(* The claims.                                                             *)
(***************************************************************************)

\* What getAuthority() computes before its test of port 443, from the settings.
ConfiguredPort == IF values.forwardingMode = "Custom Domain" THEN HTTPS_PORT
                  ELSE values.upnpPort
ConfiguredHostname == IF values.forwardingMode = "Custom Domain" THEN values.hostname
                      ELSE IF values.duckDnsToken # "" THEN values.duckDnsHostname ELSE ""
Called == authority # NoAuthority

\* C1: in every forwarding mode and for every upnpPort, hostname and DuckDNS settings,
\* getAuthority() never returns an authority whose port is 443 without a non-empty
\* hostname; where port 443 would be returned without one, it throws instead.
C1_Port443NeedsHostname ==
    Called =>
        /\ (~authority.threw /\ authority.has_port /\ authority.upnp_port = HTTPS_PORT)
              => authority.hostname # ""
        /\ (values.forwardingMode # "Disabled" /\ ConfiguredPort = HTTPS_PORT
                /\ ConfiguredHostname = "")
              => authority.threw

C1_Witness ==
    /\ Called
    /\ values.forwardingMode = "Router Forward"
    /\ values.upnpPort = HTTPS_PORT
    /\ values.duckDnsToken # "" /\ values.duckDnsHostname = ""
    /\ authority.threw

\* C10: in Custom Domain mode getAuthority() returns port 443 and the configured
\* hostname whatever upnpPort is, and when no hostname is set it throws after posting
\* its message as an alert.
C10_CustomDomain ==
    (Called /\ values.forwardingMode = "Custom Domain") =>
        IF values.hostname # ""
        THEN /\ ~authority.threw
             /\ authority.has_port
             /\ authority.upnp_port = HTTPS_PORT
             /\ authority.hostname = values.hostname
        ELSE /\ authority.threw
             /\ authority.error = "Hostname is required for port Custom Domain setup."
             /\ authority.error \in alerts

C10_Witness ==
    /\ Called
    /\ values.forwardingMode = "Custom Domain"
    /\ values.hostname = "cam.example.com"
    /\ values.upnpPort = 40000
    /\ authority.upnp_port = HTTPS_PORT

C10_WitnessNoHostname ==
    /\ Called
    /\ values.forwardingMode = "Custom Domain"
    /\ values.hostname = ""
    /\ authority.threw

\* C2 (as claimed): of two consecutive updatePortForward calls with identical authority
\* and resolved IP, the first of which registered successfully, the second sends no
\* registration: the two produce exactly one relay registration call.
C2_OneRegistration ==
    [][(/\ upfPrev.valid /\ upfPrev'.valid /\ upfPrev'.tick # upfPrev.tick
        /\ upfPrev.registered
        /\ upfPrev'.port = upfPrev.port
        /\ upfPrev'.ip = upfPrev.ip
        /\ upfPrev'.authority = upfPrev.authority)
       => upfPrev.requests + upfPrev'.requests = 1]_vars

\* C6 (as claimed): sendRegistrationId never throws, and without a bearer token or
\* with the cloud connection disabled it returns {error}, posts an alert and sends
\* no relay request.
C6_NeverThrows ==
    regOutcome.result # "none" =>
        /\ regOutcome.result # "threw"
        /\ (values.token_info = "" \/ ~values.connectHomeScryptedApp)
              => (regOutcome.result = "error" /\ regOutcome.alerted
                    /\ ~regOutcome.requested)

\* C6 (amended): sendRegistrationId throws exactly when getAuthority() throws (port
\* 443 without a hostname).  Otherwise, with the cloud connection disabled it returns
\* {error} without posting an alert, and without a bearer token it returns {error}
\* and posts the login alert; in both cases it sends no relay request.
C6_SoftFailures ==
    regOutcome.result # "none" =>
        /\ (regOutcome.result = "threw") = getAuthority(values).threw
        /\ (~getAuthority(values).threw /\ ~values.connectHomeScryptedApp)
              => (regOutcome.result = "error" /\ ~regOutcome.alerted
                    /\ ~regOutcome.requested)
        /\ (~getAuthority(values).threw /\ values.connectHomeScryptedApp
                /\ values.token_info = "")
              => (regOutcome.result = "error" /\ regOutcome.alerted
                    /\ LOGIN_ALERT \in alerts /\ ~regOutcome.requested)

C6_Witness ==
    /\ regOutcome.result = "error"
    /\ regOutcome.cause = "not logged in"
    /\ values.connectHomeScryptedApp /\ values.token_info = ""
    /\ values.forwardingMode = "Custom Domain"

\* C7: when a sendRegistrationId call completes, the persisted baseline
\* (lastPersistedRegistrationId, lastPersistedUpnpPort) is the registration id and
\* the authority port of its request if the relay answered without error, and is
\* left as it was if the answer carried an error, the call failed, it was skipped as
\* a soft failure, or it threw.
C7_BaselinePersisted ==
    [][regOutcome'.tick # regOutcome.tick =>
          IF regOutcome'.result = "ok"
          THEN /\ values'.lastPersistedRegistrationId = regOutcome'.regId
               /\ values'.lastPersistedUpnpPort = regOutcome'.port
          ELSE /\ values'.lastPersistedRegistrationId = values.lastPersistedRegistrationId
               /\ values'.lastPersistedUpnpPort = values.lastPersistedUpnpPort]_vars

C7_Witness ==
    /\ regOutcome.result = "error"
    /\ regOutcome.requested
    /\ values.lastPersistedRegistrationId = "r1"
    /\ values.lastPersistedUpnpPort = 40000
    /\ regOutcome.regId = "r2"

\* C5: scheduleRefreshPortForward keeps at most one timeout pending; the triggers
\* issued while it is pending add none, so that each burst of triggers ends in
\* exactly one refreshPortForward run, and a trigger issued after the timeout ran
\* opens a new burst.
C5_Debounce ==
    /\ timers <= 1
    /\ reregisterTimer = (timers = 1)
    /\ debounce.runs + timers = debounce.bursts

C5_Witness ==
    /\ debounce.triggers = 2
    /\ debounce.bursts = 1
    /\ debounce.runs = 1

(***************************************************************************)
(* C4.  While the tunnel feature is enabled, every exit of the child       *)
(* process after a successful start is eventually followed by a new start  *)
(* attempt of the supervisor.                                              *)
(***************************************************************************)
C4_RestartAfterExit ==
    (cloudflared.pc = "exited") ~> (cloudflared.pc = "starting")

(***************************************************************************)
(* C3 as stated.  Once the pool has been started it never holds fewer than *)
(* 10 unclaimed connections (a replacement is in the set, unclaimed, from  *)
(* the moment it is attempted), and an event that removes N connections    *)
(* from the set creates exactly N connections.                             *)
(***************************************************************************)
PoolStarted == callback.mux > 0

TopUps == {"callback", "handshake", "close claimed"}

C3_TenIdle ==
    /\ PoolStarted => reverseConnections.unclaimed >= POOL_SIZE
    /\ poolLast.removed > 0 => poolLast.created = poolLast.removed

(***************************************************************************)
(* C3 as the code has it.  The set, claimed and unclaimed connections      *)
(* together, never holds more than 10 connections and holds exactly 10     *)
(* right after every top-up (a callback that was not throttled, a mux      *)
(* handshake, the close of a claimed connection); the close of a claimed   *)
(* connection creates exactly the connections that bring the set back to   *)
(* 10, and the close of an unclaimed connection creates none.              *)
(***************************************************************************)
C3_TopUp ==
    /\ Size(reverseConnections) <= POOL_SIZE
    /\ poolLast.event \in TopUps =>
          /\ Size(reverseConnections) = POOL_SIZE
          /\ poolLast.created = POOL_SIZE - (poolLast.before - poolLast.removed)
    /\ poolLast.event = "close unclaimed" =>
          /\ poolLast.created = 0
          /\ Size(reverseConnections) = poolLast.before - 1
    /\ poolLast.event = "claim" =>
          /\ poolLast.created = 0
          /\ Size(reverseConnections) = poolLast.before

\* A claimed connection closes after an unclaimed one did: two connections are
\* created, and another connection is still claimed.
C3_Witness ==
    /\ PoolStarted
    /\ poolLast.event = "close claimed"
    /\ poolLast.created = 2
    /\ reverseConnections.claimed > 0
    /\ reverseConnections.unclaimed < POOL_SIZE

(***************************************************************************)
(* C8 as stated.  A whitelist() call for a path that has an entry in the   *)
(* cache returns the URL of that entry and starts no scope call of the     *)
(* relay, and an entry of the cache never changes.                         *)
(***************************************************************************)
Returned_whitelist == {"direct", "cached", "not logged in"}

ScopeCallStarted(c) == conversions[c].pc = "idle" /\ conversions'[c].pc = "scope"

C8_RoundTrip ==
    [][/\ \A p \in Paths : whitelisted[p] # NoUrl => whitelisted'[p] = whitelisted[p]
       /\ \A c \in Conversions :
             ScopeCallStarted(c) => whitelisted[conversions'[c].path] = NoUrl
       /\ (/\ lastConv'.tick # lastConv.tick
           /\ lastConv'.kind \in Returned_whitelist
           /\ whitelisted[lastConv'.path] # NoUrl)
          => lastConv'.url = whitelisted[lastConv'.path]]_vars

(***************************************************************************)
(* C8 as the code has it.  While there is no SSL hostname, a whitelist()   *)
(* call for a path that has an entry in the cache returns the URL of that  *)
(* entry and starts no scope call; while there is an SSL hostname it       *)
(* returns baseUrl + path, without tokens, and neither reads nor changes   *)
(* the cache nor calls the relay.  An entry is never removed, and it       *)
(* changes only when a call for the same path that had started its scope   *)
(* call before gets its answer.                                            *)
(***************************************************************************)
C8_CachedRoundTrip ==
    [][/\ \A p \in Paths : whitelisted[p] # NoUrl => whitelisted'[p] # NoUrl
       /\ \A p \in Paths :
             whitelisted'[p] # whitelisted[p] =>
                \E c \in Conversions : /\ conversions[c].pc = "scope"
                                        /\ conversions[c].path = p
                                        /\ conversions'[c].pc = "idle"
                                        /\ lastConv'.kind = "fetched"
                                        /\ whitelisted'[p] = lastConv'.url
       /\ \A c \in Conversions :
             ScopeCallStarted(c) =>
                /\ whitelisted[conversions'[c].path] = NoUrl
                /\ getSSLHostname(values, cloudflareTunnel) = NoHost
       /\ (lastConv'.tick # lastConv.tick /\ lastConv'.kind \in Returned_whitelist) =>
             /\ whitelisted' = whitelisted
             /\ conversions' = conversions
             /\ IF getSSLHostname(values, cloudflareTunnel) # NoHost
                THEN /\ lastConv'.kind = "direct"
                     /\ lastConv'.url.tokens = ""
                     /\ lastConv'.url.path = lastConv'.path
                     /\ lastConv'.url.host = getSSLHostname(values, cloudflareTunnel)
                ELSE IF whitelisted[lastConv'.path] # NoUrl
                THEN /\ lastConv'.kind = "cached"
                     /\ lastConv'.url = whitelisted[lastConv'.path]
                ELSE lastConv'.kind = "not logged in"]_vars

\* A conversion returned the URL that an earlier conversion of the path had stored.
C8_Witness ==
    /\ lastConv.kind = "cached"
    /\ lastConv.url = whitelisted[lastConv.path]
    /\ lastConv.url.tokens \in ScopeTokens

\* A conversion returned baseUrl + path although the cache has an entry for the path.
C8_WitnessDirect ==
    /\ lastConv.kind = "direct"
    /\ whitelisted[lastConv.path] # NoUrl

(***************************************************************************)
(* C9.  A request whose URL ends with /testPortForward is answered with    *)
(* this.randomBytes, which is the same for the whole life of the process,  *)
(* and testPortForward() reports success only when the data the relay      *)
(* fetched is that token.                                                  *)
(***************************************************************************)
TestUrls == {<<"endpoint", "public", "testPortForward">>, <<"testPortForward">>}

C9_TokenEcho ==
    /\ [](lastResponse.url \in TestUrls => lastResponse.body = randomBytes)
    /\ [](testOutcome.result = "succeeded" => testOutcome.data = randomBytes)
    /\ [][randomBytes' = randomBytes]_vars
    /\ [][(TEST_SUCCEEDED_ALERT \in alerts' /\ TEST_SUCCEEDED_ALERT \notin alerts)
            => testOutcome'.data = randomBytes]_vars

\* The test succeeded after the endpoint answered the relay's request.
C9_Witness ==
    /\ testOutcome.result = "succeeded"
    /\ testOutcome.data = randomBytes
    /\ lastResponse.url \in TestUrls
    /\ lastResponse.body = randomBytes
    /\ TEST_SUCCEEDED_ALERT \in alerts

(***************************************************************************)
(* C11 as stated.  An updatePortForward() call of a refresh cycle in the   *)
(* Disabled mode, on an installation that is logged in: the authority has  *)
(* no hostname, its port is the configured port, and the call sends a      *)
(* registration to the relay.                                              *)
(***************************************************************************)
DisabledCycle ==
    /\ upfPrev'.tick # upfPrev.tick
    /\ upfPrev'.valid
    /\ values.forwardingMode = "Disabled"
    /\ values.token_info # ""
    /\ values.connectHomeScryptedApp

C11_DisabledPort ==
    [][DisabledCycle =>
          /\ upfPrev'.authority.hostname = ""
          /\ upfPrev'.authority.has_port
          /\ upfPrev'.authority.upnp_port = values'.upnpPort
          /\ upfPrev'.requests = 1]_vars

(***************************************************************************)
(* C11 as the code has it.  In the Disabled mode the authority has neither *)
(* a hostname nor a port; the call of a refresh cycle sends a registration *)
(* that carries no port, unless the persisted port and IP already equal    *)
(* the port of the cycle and the resolved IP.                              *)
(***************************************************************************)
C11_DisabledAuthority ==
    [][DisabledCycle =>
          /\ upfPrev'.authority = Returned(FALSE, 0, "")
          /\ upfPrev'.requests <= 1
          /\ upfPrev'.requests = 0 =>
                /\ values.lastPersistedUpnpPort = upfPrev'.port
                /\ values.lastPersistedIp = upfPrev'.ip
          /\ upfPrev'.requests = 1 =>
                /\ regOutcome'.requested
                /\ regOutcome'.port = 0]_vars

\* A refresh cycle in the Disabled mode has registered.
C11_Witness ==
    /\ values.forwardingMode = "Disabled"
    /\ upfPrev.valid
    /\ upfPrev.requests = 1
    /\ upfPrev.registered
    /\ regOutcome.result = "ok"
    /\ regOutcome.port = 0
    /\ values.upnpPort # 0

\* A refresh cycle in the Disabled mode found the persisted port and IP unchanged.
C11_WitnessUnchanged ==
    /\ values.forwardingMode = "Disabled"
    /\ upfPrev.valid
    /\ upfPrev.requests = 0

(***************************************************************************)
(* C12 as stated.  The port a refresh cycle chooses when no upnpPort is    *)
(* persisted lies in [40000, 60000), whatever Math.random() returns.       *)
(***************************************************************************)
\* The ports of the refresh cycles that chose one at random and have not returned.
Chosen == {procs[i].port : i \in {j \in Procs : procs[j].pc \in {"rpf_addr", "upf_ip"}}}

C12_HalfOpenRange ==
    \A p \in Chosen : 40000 <= p /\ p < 60000

(***************************************************************************)
(* C12 as the code has it.  The port lies in the closed range              *)
(* [40000, 60000]: Math.round() rounds the values of Math.random() from    *)
(* 0.999975 on up to 60000.                                                *)
(***************************************************************************)
C12_ClosedRange ==
    \A p \in Chosen : 40000 <= p /\ p <= 60000

\* A refresh cycle chose 60000.
C12_Witness == 60000 \in Chosen

\* A refresh cycle chose 40000.
C12_WitnessLow == 40000 \in Chosen

(***************************************************************************)
(* C13.  In the UPNP mode with no persisted upnpPort, the port a refresh   *)
(* cycle chose is persisted once the cycle's portMapping callback has run, *)
(* whether the mapping succeeded or failed, so that the next cycle reads   *)
(* it from the settings.                                                   *)
(***************************************************************************)
C13_PortPersisted ==
    [][\A i \in Procs :
          procs[i].pc = "rpf_map" /\ procs'[i].pc # "rpf_map"
              => values'.upnpPort = procs[i].port]_vars

\* What the code does: the port is persisted by the cycle exactly when its mapping
\* succeeded, and a persisted port is the one every later cycle maps.
C13_PersistedOnSuccess ==
    [][\A i \in Procs :
          /\ procs[i].pc = "rpf_map" /\ procs'[i].pc # "rpf_map"
                => IF upnpStatus' = "Active"
                   THEN values'.upnpPort = procs[i].port
                   ELSE values'.upnpPort = values.upnpPort
          /\ procs[i].pc = "rpf_addr" /\ procs'[i].pc # "rpf_addr"
                => values'.upnpPort = values.upnpPort
          /\ procs[i].pc = "idle" /\ procs'[i].pc = "rpf_addr" /\ values.upnpPort # 0
                => procs'[i].port = values.upnpPort]_vars

\* A cycle whose mapping failed has left no port persisted, and the next cycle has
\* chosen a port.
C13_WitnessNotPersisted ==
    /\ values.forwardingMode = "UPNP"
    /\ values.upnpPort = 0
    /\ upnpStatus = "Error: See Console"
    /\ \E i \in Procs : procs[i].pc = "rpf_addr" /\ procs[i].port = 60000

(***************************************************************************)
(* C14 as stated.  In the UPNP mode with no persisted upnpPort, the        *)
(* portMapping request of a refresh cycle has the chosen port as its       *)
(* public port and as its private port.                                    *)
(***************************************************************************)
Mapping == {i \in Procs : procs[i].pc = "rpf_map" /\ values.upnpPort = 0}

C14_SamePort ==
    \A i \in Mapping :
        /\ procs[i].port \in RandomPorts
        /\ procs[i].private = procs[i].port

(***************************************************************************)
(* C14 as the code has it.  The chosen port is the public port of the      *)
(* request; the private port is this.securePort, the port of the TLS       *)
(* listener.                                                               *)
(***************************************************************************)
C14_SecurePort ==
    \A i \in Mapping :
        /\ procs[i].port \in RandomPorts
        /\ procs[i].private = values.securePort

\* A mapping of the chosen port 60000 to the listener's port was requested.
C14_Witness ==
    \E i \in Mapping :
        /\ values.forwardingMode = "UPNP"
        /\ procs[i].port = 60000
        /\ procs[i].private = LISTEN_PORT

(***************************************************************************)
(* C15.  In a crash loop, where every start attempt of the tunnel fails,   *)
(* the first delay between two attempts is 60 s, every later delay is at   *)
(* least 1.2 times the one before it or is the cap, and no delay exceeds   *)
(* 300 s.                                                                  *)
(***************************************************************************)
Seconds(n) == n * 1000 * TicksPerMs

AttemptFailed ==
    /\ cloudflared.pc = "starting"
    /\ cloudflared'.pc = "starting"
    /\ cloudflared'.attempts = cloudflared.attempts + 1

C15_BackoffDelays ==
    [][AttemptFailed =>
          /\ cloudflared.attempts = 1 => cloudflared'.delay = Seconds(60)
          /\ cloudflared.attempts > 1 =>
                \/ cloudflared'.delay >= (cloudflared.delay \div 5) * 6
                \/ cloudflared'.delay = Seconds(300)
          /\ cloudflared'.delay >= Seconds(60)
          /\ cloudflared'.delay <= Seconds(300)]_vars

\* Ten attempts failed in a row, and the delay has reached the cap.
C15_Witness ==
    /\ cloudflared.pc = "starting"
    /\ cloudflared.attempts = 11
    /\ cloudflared.delay = Seconds(300)

\* Three attempts failed in a row: the delays were 60 s and 72 s.
C15_WitnessGrowing ==
    /\ cloudflared.pc = "starting"
    /\ cloudflared.attempts = 3
    /\ cloudflared.delay = Seconds(72)

(***************************************************************************)
(* C16.  A line of the child's error stream that carries the config=       *)
(* marker with the twice-stringified configuration resolves the Deferred   *)
(* with https://<hostname of the first ingress rule>; when the ingress     *)
(* array is empty, or its first rule has no hostname, it resolves with     *)
(* undefined ("no hostname"); the handler never throws, a parse error is   *)
(* caught; and the Deferred keeps the first value it was resolved with.    *)
(***************************************************************************)
Configured(line) == line.marker /\ line.encoded = 2 /\ line.wellformed

FirstHostname(line) == IF line.ingress = <<>> THEN "" ELSE Head(line.ingress)

C16_Extraction ==
    /\ [](cloudflared.lines > 0 =>
            LET line == cloudflared.line
                handled == cloudflared.handled
            IN  /\ ~handled.threw
                /\ Configured(line) /\ FirstHostname(line) # ""
                      => /\ handled.resolved
                         /\ handled.value = "https://" \o FirstHostname(line)
                /\ Configured(line) /\ FirstHostname(line) = ""
                      => handled.resolved /\ handled.value = ""
                /\ ~Configured(line) => ~handled.resolved
                /\ match(line) /\ ~line.wellformed => handled.caught)
    /\ [][cloudflared'.lines = cloudflared.lines + 1 =>
             cloudflared'.deferred =
                 IF cloudflared.deferred.settled \/ ~cloudflared'.handled.resolved
                 THEN cloudflared.deferred
                 ELSE [settled |-> TRUE, value |-> cloudflared'.handled.value]]_vars

\* Two configuration lines were handled: the Deferred has the hostname of the first
\* ingress rule of the first line, not the one extracted from the second line.
C16_Witness ==
    /\ cloudflared.lines = 2
    /\ Configured(cloudflared.line)
    /\ Len(cloudflared.line.ingress) = 2
    /\ cloudflared.handled.value = "https://cam.example.com"
    /\ cloudflared.deferred = [settled |-> TRUE, value |-> "https://" \o TUNNEL_HOST]

\* A configuration with an empty ingress array resolved the Deferred with undefined.
C16_WitnessEmpty ==
    /\ cloudflared.lines = 1
    /\ Configured(cloudflared.line)
    /\ cloudflared.line.ingress = <<>>
    /\ cloudflared.handled.resolved
    /\ cloudflared.deferred = [settled |-> TRUE, value |-> ""]

\* A configuration that is not JSON was caught.
C16_WitnessCaught ==
    /\ cloudflared.lines > 0
    /\ cloudflared.handled.caught
    /\ ~cloudflared.deferred.settled

(***************************************************************************)
(* C17 as stated.  The close of a connection that was never claimed is     *)
(* followed, in the close handler, by the creation of a connection that    *)
(* replaces it, and records no claim.                                      *)
(***************************************************************************)
PoolEventIs(event) == poolLast'.tick # poolLast.tick /\ poolLast'.event = event

C18_ClaimedRefill ==
    [][PoolEventIs("close claimed") =>
          /\ reverseConnections'.claimed = reverseConnections.claimed - 1
          /\ reverseConnections'.unclaimed =
                 reverseConnections.unclaimed + poolLast'.created
          /\ poolLast'.created = POOL_SIZE - (Size(reverseConnections) - 1)
          /\ poolLast'.created >= 1
          /\ Size(reverseConnections') = POOL_SIZE]_vars

\* The only claimed connection of the full set closed and was replaced.
C18_Witness ==
    /\ poolLast.event = "close claimed"
    /\ poolLast.before = POOL_SIZE
    /\ poolLast.created = 1
    /\ reverseConnections = [unclaimed |-> POOL_SIZE, claimed |-> 0]

(***************************************************************************)
(* C19.  Whatever the interleaving of callback messages, mux handshakes,   *)
(* claims and closes, the set never holds more than 10 connections, and a  *)
(* step that adds connections leaves it at exactly 10.                     *)
(***************************************************************************)
C19_NoOvershoot ==
    /\ [](Size(reverseConnections) <= POOL_SIZE)
    /\ [][Size(reverseConnections') > Size(reverseConnections)
             => Size(reverseConnections') = POOL_SIZE]_vars

\* A mux handshake ran the top-up check on the full set while the handler of another
\* callback message was still waiting, and connections were claimed.
C19_Witness ==
    /\ poolLast.event = "handshake"
    /\ poolLast.before = POOL_SIZE
    /\ poolLast.created = 0
    /\ callback.pending > 0
    /\ reverseConnections.claimed > 0

(***************************************************************************)
(* C20.  No failure leaves a refresh cycle started by a timer, the address *)
(* re-announcement or the tunnel supervisor as an error nobody catches:    *)
(* the promise of none of these calls is ever rejected.                    *)
(***************************************************************************)
C20_NothingUncaught ==
    /\ "rpf" \notin uncaught
    /\ "upf" \notin uncaught
    /\ cloudflared.pc # "exited"

\* The three ways out: a refresh cycle in the Router Forward mode whose IP resolution
\* failed, a re-announcement in the Custom Domain mode without hostname, and the
\* supervisor after the exit of the child.
C20_RefreshRejected ==
    /\ values.forwardingMode = "Router Forward"
    /\ values.duckDnsToken = ""
    /\ cloudflared.pc = "init"
    /\ uncaught = {"rpf"}

C20_AnnounceRejected ==
    /\ values.forwardingMode = "Custom Domain"
    /\ values.hostname = ""
    /\ uncaught = {"upf"}

C20_SupervisorRejected ==
    /\ cloudflared.pc = "exited"
    /\ uncaught = {}

(***************************************************************************)
(* C21.  A refresh cycle that the settings timer starts begins by clearing *)
(* the alerts: right after its first step the only alerts are those the    *)
(* step raised itself, and the port 443 alert is among them only while the *)
(* configured port is 443 in a mode that forwards a port.                  *)
(***************************************************************************)
SettingsRefreshStarts == debounce'.runs = debounce.runs + 1

C21_AlertsCleared ==
    [][SettingsRefreshStarts =>
          /\ alerts' \subseteq {PORT_443_ALERT}
          /\ PORT_443_ALERT \in alerts' =>
                /\ values.upnpPort = HTTPS_PORT
                /\ values.forwardingMode # "Disabled"]_vars

\* What the code does: no step of a refresh cycle removes an alert.
C21_AlertsKept == [][alerts \subseteq alerts']_vars

\* The port 443 alert is still there after the port was changed and the settings
\* timer has run the next refresh cycle.
C21_StaleAlert ==
    /\ PORT_443_ALERT \in alerts
    /\ values.upnpPort = 40000
    /\ debounce.runs > 0
    /\ upnpStatus # "Error: Port 443 Not Allowed"

(***************************************************************************)
(* C22.  While the child of a start attempt is running (it has written to  *)
(* its error stream and has not exited), the attempt does not fail: no     *)
(* step makes backOff() count a further attempt, whatever the child wrote. *)
(***************************************************************************)
ChildRunning ==
    /\ cloudflared.pc = "starting"
    /\ cloudflared.lines > 0
    /\ ~cloudflared.exited

C22_BenignWhileRunning ==
    [][ChildRunning => cloudflared'.attempts = cloudflared.attempts]_vars

\* What the code does: the attempt of a running child fails exactly when a
\* configuration without hostname resolved the Deferred with undefined.
C22_BenignWhilePending ==
    [][ChildRunning /\ cloudflared'.attempts # cloudflared.attempts =>
          cloudflared.deferred = [settled |-> TRUE, value |-> ""]]_vars

(***************************************************************************)
(* C23.  When the child of a start attempt exits before the discovery from *)
(* its error stream or the URL promise of the library resolved, the        *)
(* awaited outcome is undefined: the attempt fails (backOff() counts the   *)
(* next attempt and the tunnel URL is unset) and does not hang.  Otherwise *)
(* the first of the two to resolve gives the tunnel URL: the hostname the  *)
(* error stream resolved the Deferred with, or else the URL of the         *)
(* library.                                                                *)
(***************************************************************************)
ChildExitedEarly == cloudflared.pc = "starting" /\ cloudflared.exited

C23_DiscoveryTerminates ==
    /\ [](ChildExitedEarly => cloudflared.deferred = [settled |-> TRUE, value |-> ""])
    /\ [][ChildExitedEarly /\ [cloudflared' EXCEPT !.orphans = 0]
                                 # [cloudflared EXCEPT !.orphans = 0] =>
             /\ cloudflared'.pc = "starting"
             /\ cloudflared'.attempts = cloudflared.attempts + 1
             /\ cloudflareTunnel' = ""]_vars
    /\ (ChildExitedEarly /\ cloudflared.attempts < MaxAttempts /\ started < MaxOps)
          ~> ~cloudflared.exited
    /\ [][cloudflared.pc = "starting" /\ cloudflared'.pc = "running" =>
             IF cloudflared.deferred.settled
             THEN "https://" \o cloudflareTunnel' = cloudflared.deferred.value
             ELSE cloudflareTunnel' \in TunnelHosts]_vars

\* The child exited before it wrote anything.
C23_Witness ==
    /\ ChildExitedEarly
    /\ cloudflared.lines = 0
    /\ cloudflared.deferred.settled

\* The attempt after one that failed.
C23_WitnessFailed ==
    /\ cloudflared.pc = "starting"
    /\ cloudflared.attempts = 2
    /\ ~cloudflared.exited

\* The discovery from the error stream was first.
C23_WitnessDiscovered ==
    /\ cloudflared.pc = "running"
    /\ cloudflared.deferred.settled
    /\ cloudflareTunnel = "cam.example.com"

\* The URL of the library was first.
C23_WitnessUrl ==
    /\ cloudflared.pc = "running"
    /\ ~cloudflared.deferred.settled
    /\ cloudflareTunnel # ""

(***************************************************************************)
(* C24.  Every step of the supervisor that ends the discovery of a start   *)
(* attempt (with a tunnel URL or without one) or that follows the exit of  *)
(* the running child calls updateExternalAddresses(); each such call       *)
(* announces the hostname setting and the tunnel URL as they are when it   *)
(* announces; and once the child has exited the tunnel URL is unset and,   *)
(* when the calls have announced, is not among the announced addresses.    *)
(***************************************************************************)
Announced(url) ==
    \E k \in DOMAIN externalAddresses.addresses : externalAddresses.addresses[k] = url

Announcing == \E i \in Procs : procs[i].pc = "uea"

TunnelTransition ==
    \/ cloudflareTunnel' # cloudflareTunnel
    \/ cloudflared.pc = "running" /\ cloudflared'.pc = "exited"
    \/ cloudflared.pc = "starting" /\ cloudflared'.pc = "running"
    \/ /\ cloudflared.deferred.settled
       /\ cloudflared'.attempts = cloudflared.attempts + 1

C24_Reannounced ==
    /\ [][TunnelTransition =>
             \E i \in Procs : procs[i].pc = "idle" /\ procs'[i].pc = "uea"]_vars
    /\ [][\A i \in Procs :
             procs[i].pc = "uea" /\ procs'[i].pc # "uea" =>
                /\ externalAddresses'.announced
                /\ Len(externalAddresses'.addresses) <= 2
                /\ \A h \in Hostnames \ {""} :
                      (\E k \in DOMAIN externalAddresses'.addresses :
                          externalAddresses'.addresses[k] = "https://" \o h)
                          <=> (h = values.hostname \/ h = cloudflareTunnel)
                /\ \A h \in TunnelHosts \ {""} :
                      (\E k \in DOMAIN externalAddresses'.addresses :
                          externalAddresses'.addresses[k] = "https://" \o h)
                          <=> (h = values.hostname \/ h = cloudflareTunnel)]_vars
    /\ [](cloudflared.pc = "exited" => cloudflareTunnel = "")
    /\ [](cloudflared.pc = "exited" /\ ~Announcing =>
             /\ externalAddresses.announced
             /\ \A h \in TunnelHosts \ {""} : ~Announced("https://" \o h))
    /\ (cloudflared.pc = "exited") ~> ~Announcing

\* The tunnel URL was announced while the child ran.
C24_WitnessRunning ==
    /\ cloudflared.pc = "running"
    /\ values.hostname # ""
    /\ Announced("https://" \o values.hostname)
    /\ Announced("https://" \o TUNNEL_HOST)

\* The child has exited, and the addresses were announced again without the URL.
C24_Witness ==
    /\ cloudflared.pc = "exited"
    /\ ~Announcing
    /\ externalAddresses.addresses = <<"https://cam.example.com">>

(***************************************************************************)
(* C25.  A step in which the relay's answer to a registration is handled   *)
(* (the return of sendRegistrationId's request, and the lines of           *)
(* updatePortForward after it) changes no setting other than               *)
(* lastPersistedRegistrationId, lastPersistedUpnpPort and lastPersistedIp: *)
(* forwardingMode, hostname and upnpPort are as before, also when the      *)
(* registrations of the interval and of the settings timer overlap.        *)
(***************************************************************************)
Baselines == {"lastPersistedRegistrationId", "lastPersistedUpnpPort", "lastPersistedIp"}

Confirmation(i) ==
    /\ procs[i].pc \in {"reg_wait", "upf_after"}
    /\ procs'[i].pc # procs[i].pc

C25_BaselinesOnly ==
    [][\A i \in Procs :
          Confirmation(i) =>
             \A f \in DOMAIN values \ Baselines : values'[f] = values[f]]_vars

\* Two registrations overlap, one of a cycle the settings timer started; the
\* first was confirmed and the second still awaits the relay.
C25_Witness ==
    /\ debounce.runs > 0
    /\ values.lastPersistedRegistrationId # ""
    /\ values.lastPersistedIp # ""
    /\ debounce.triggers = 1
    /\ started = 2
    /\ procs[1].pc = "idle"
    /\ procs[2].pc = "reg_wait" /\ procs[2].root = "rpf" /\ ~procs[2].alone

\* Both confirmations arrived, the later one for the request sent first.
C25_WitnessBoth ==
    /\ debounce.runs > 0
    /\ started = 2
    /\ \A i \in Procs : procs[i].pc = "idle"
    /\ values.lastPersistedIp # ""
    /\ values.lastPersistedUpnpPort # values.upnpPort
    /\ values.forwardingMode = "Router Forward"

(***************************************************************************)
(* C26.  A put of forwardingMode, hostname or upnpPort leaves every call   *)
(* in progress where it is and, when it changes the setting, leaves a      *)
(* timeout pending; and the refresh cycle that the timeout starts reads,   *)
(* in each setting that the puts before it changed, the value they put.    *)
(***************************************************************************)
PutStep == debounce'.triggers = debounce.triggers + 1

C26_ChangeIsRead ==
    /\ [][PutStep => \A i \in Procs : procs'[i] = [procs[i] EXCEPT !.alone = procs'[i].alone]]_vars
    /\ [][(\E f \in Scheduling : values'[f] # values[f]) /\ PutStep =>
             reregisterTimer' /\ timers' > 0]_vars
    /\ [][SettingsRefreshStarts =>
             \A f \in debounce.changed : values[f] = debounce.put[f]]_vars

\* What the code does: the put interrupts nothing and leaves a timeout pending.
C26_ChangeIsScheduled ==
    /\ [][PutStep => \A i \in Procs : procs'[i] = [procs[i] EXCEPT !.alone = procs'[i].alone]]_vars
    /\ [][(\E f \in Scheduling : values'[f] # values[f]) /\ PutStep =>
             reregisterTimer' /\ timers' > 0]_vars

\* The cycle that was in progress has written its own port over the one that was
\* put, and the timeout has not run yet.
C26_Overwritten ==
    /\ timers > 0
    /\ "upnpPort" \in debounce.changed
    /\ values.upnpPort # debounce.put.upnpPort

(***************************************************************************)
(* C27 as stated.  A failed UPnP mapping request sets the error status and *)
(* raises the alert, and from then on no mapping request is issued until   *)
(* the 30 minute interval has started a refresh cycle.                     *)
(***************************************************************************)
MappingRequested(i) == procs[i].pc # "rpf_map" /\ procs'[i].pc = "rpf_map"

MappingFailed(i) ==
    /\ procs[i].pc = "rpf_map"
    /\ procs'[i].pc # "rpf_map"
    /\ upnpStatus' = "Error: See Console"

C27_NoRequestBeforeInterval ==
    /\ [][\A i \in Procs : MappingFailed(i) => UPNP_FAILED_ALERT \in alerts']_vars
    /\ [][\A i \in Procs : MappingRequested(i) => ~mapFailed]_vars

(***************************************************************************)
(* C27.  A failed UPnP mapping request sets the status 'Error: See         *)
(* Console' and raises the alert, and the failure itself issues and        *)
(* schedules nothing: the cycle ends, no call is started, no timeout is    *)
(* set and no other call moves.  A mapping request is only ever issued by  *)
(* a refresh cycle that has its local address, and while the failure is    *)
(* outstanding only the settings timer starts one.                         *)
(***************************************************************************)
C27_NoRetry ==
    /\ [][\A i \in Procs :
             MappingFailed(i) =>
                /\ UPNP_FAILED_ALERT \in alerts'
                /\ procs'[i] = Idle
                /\ \A j \in Procs \ {i} : procs'[j] = procs[j]
                /\ started' = started
                /\ timers' = timers
                /\ reregisterTimer' = reregisterTimer]_vars
    /\ [][\A i \in Procs :
             MappingRequested(i) => procs[i].pc = "rpf_addr" /\ procs[i].root = "rpf"]_vars
    /\ [][started' = started + 1 /\ mapFailed' => SettingsRefreshStarts]_vars

\* The request has failed and the cycle has ended.
C27_Witness ==
    /\ mapFailed
    /\ upnpStatus = "Error: See Console"
    /\ UPNP_FAILED_ALERT \in alerts
    /\ \A i \in Procs : procs[i].pc = "idle"

\* After the failure a setting was put, and the cycle of the settings timer, which
\* began when no other call was in progress, has issued a mapping request.
C27_WitnessTimerRequest ==
    /\ mapFailed
    /\ debounce.runs = 1
    /\ \E i \in Procs : procs[i].pc = "rpf_map" /\ procs[i].alone

(***************************************************************************)
(* C28.  A refresh cycle that finds port 443 configured in the UPNP or     *)
(* Router Forward mode, or no hostname in the Custom Domain mode, ends in  *)
(* its first step: no call is left awaiting a mapping or a registration.   *)
(* It raises an alert, and, no setting being put, it is the only cycle     *)
(* that is run.                                                            *)
(***************************************************************************)
ConfigurationError(v) ==
    \/ v.forwardingMode \in {"UPNP", "Router Forward"} /\ v.upnpPort = HTTPS_PORT
    \/ v.forwardingMode = "Custom Domain" /\ v.hostname = ""

CycleStarts == started' = started + 1

C28_Abandoned ==
    [][CycleStarts /\ ConfigurationError(values) =>
          /\ \A i \in Procs : procs'[i].pc = procs[i].pc
          /\ alerts' # {}
          /\ started = 0]_vars

\* What the code does: the cycle ends in its first step, and port 443 raises the
\* alert and sets the status.
C28_AbandonedOnly ==
    [][CycleStarts /\ ConfigurationError(values) =>
          /\ \A i \in Procs : procs'[i].pc = procs[i].pc
          /\ values' = values
          /\ values.upnpPort = HTTPS_PORT =>
                /\ PORT_443_ALERT \in alerts'
                /\ upnpStatus' = "Error: Port 443 Not Allowed"]_vars

\* The cycle found no hostname in the Custom Domain mode: its promise was rejected
\* and there is no alert.
C28_NoAlert ==
    /\ values.forwardingMode = "Custom Domain"
    /\ values.hostname = ""
    /\ values.upnpPort = 40000
    /\ started = 1
    /\ uncaught = {"rpf"}
    /\ alerts = {}

\* The interval has run the cycle again, with the settings as they were.
C28_Retried ==
    /\ ConfigurationError(values)
    /\ started = 2
    /\ \A i \in Procs : procs[i].pc = "idle"

(***************************************************************************)
(* C29 as stated.  When updatePortForward continues after a registration   *)
(* that the relay answered without error, and the address it resolved is   *)
(* not localhost and differs from the address in the answer, the warning   *)
(* is raised; in every case the resolved address is persisted as           *)
(* lastPersistedIp.                                                        *)
(***************************************************************************)
Verified(i) == procs[i].pc = "upf_after" /\ procs'[i].pc # "upf_after"

C29_MismatchWarned ==
    [][\A i \in Procs :
          Verified(i) =>
             /\ procs[i].ip # "localhost" /\ procs[i].ip # procs[i].data =>
                   MISMATCH_ALERT \in alerts'
             /\ values'.lastPersistedIp = procs[i].ip]_vars

(***************************************************************************)
(* C29.  The same, for a resolved address that is neither localhost nor    *)
(* the host of the tunnel: then the warning is raised; for localhost, the  *)
(* host of the tunnel or the address of the answer no alert is added.  In  *)
(* every case the call goes on to persist the resolved address as          *)
(* lastPersistedIp and returns normally.                                   *)
(***************************************************************************)
C29_MismatchAdvisory ==
    [][\A i \in Procs :
          Verified(i) =>
             /\ IF /\ procs[i].ip # "localhost"
                   /\ procs[i].ip # cloudflareTunnel
                   /\ procs[i].ip # procs[i].data
                THEN MISMATCH_ALERT \in alerts'
                ELSE alerts' = alerts
             /\ values'.lastPersistedIp = procs[i].ip
             /\ procs'[i] = Idle
             /\ uncaught' = uncaught]_vars

\* The warning was raised and the address persisted.
C29_Witness ==
    /\ MISMATCH_ALERT \in alerts
    /\ values.lastPersistedIp \in RelayIps
    /\ values.lastPersistedRegistrationId # ""

\* The resolved address is the host of the tunnel: persisted without a warning.
C29_WitnessTunnel ==
    /\ alerts = {}
    /\ values.lastPersistedIp = TUNNEL_HOST

\* The resolved address is localhost: persisted without a warning.
C29_WitnessLocalhost ==
    /\ alerts = {}
    /\ values.lastPersistedIp = "localhost"

(***************************************************************************)
(* C30.  On every reverse connection the line reverse:<registrationId> is  *)
(* the first thing written.  A connection to the local server is opened,   *)
(* and piped to the reverse connection, only for a call whose readLine()   *)
(* returned the line of the relay; a call whose socket closed before that  *)
(* line returns and opens and pipes nothing, ever; and the connections to  *)
(* the local server of two calls are two connections.                      *)
(***************************************************************************)
C30_ClaimThenBridge ==
    /\ [](\A c \in Clients :
             clients[c].pc # "none" =>
                /\ Len(clients[c].written) >= 1
                /\ clients[c].written[1] = "reverse:" \o registrationId)
    /\ [](\A c \in Clients :
             /\ clients[c].local # 0 => clients[c].claimed
             /\ clients[c].pc \in {"connected", "piped"} <=> clients[c].local # 0
             /\ Len(clients[c].written) > 1 => clients[c].pc = "piped")
    /\ [][\A c \in Clients :
             /\ clients'[c].claimed /\ ~clients[c].claimed =>
                   clients[c].pc = "readLine" /\ ~clients[c].closed
             /\ clients[c].pc = "returned" =>
                   clients'[c] = clients[c] /\ ~clients[c].claimed]_vars
    /\ [](\A c, d \in Clients :
             c # d /\ clients[c].local # 0 => clients[c].local # clients[d].local)
    /\ [](locals = Cardinality({c \in Clients : clients[c].local # 0}))

\* Two connections were claimed and piped, each to its own connection to the local
\* server, and a third closed before it was claimed.
C30_Witness ==
    /\ clients[1].pc = "piped" /\ clients[1].local = 2
    /\ clients[2].pc = "piped" /\ clients[2].local = 1
    /\ clients[3].pc = "returned" /\ clients[3].closed
    /\ clients[1].written = <<"reverse:r1", "response">>

(***************************************************************************)
(* C31.  Membership of the set of reverse connections.                     *)
(***************************************************************************)
Members == {c \in Clients : clients[c].member}

\* C31: a reverse connection is in the set this.reverseConnections from the call
\* that created it until the 'close' event of its socket, claimed or not: in every
\* state the followed connections in the set are those that were created and have
\* not closed, membership changes only when a connection is created (it enters)
\* and when its socket closes (it leaves), and the set holds at least the followed
\* members, the claimed among the claimed and the others among the unclaimed.
C31_MemberUntilClose ==
    /\ [](\A c \in Clients :
             clients[c].member <=> clients[c].pc # "none" /\ ~clients[c].closed)
    /\ [][\A c \in Clients :
             clients'[c].member # clients[c].member =>
                \/ clients[c].pc = "none" /\ clients'[c].pc = "readLine"
                                          /\ clients'[c].member
                \/ ~clients[c].closed /\ clients'[c].closed /\ ~clients'[c].member]_vars
    /\ [](/\ Cardinality({c \in Members : clients[c].claimed}) <= reverseConnections.claimed
          /\ Cardinality({c \in Members : ~clients[c].claimed})
                <= reverseConnections.unclaimed
          /\ Size(reverseConnections) <= POOL_SIZE)

\* A claimed and piped connection and an unclaimed one are in the set, and a claimed
\* one that closed is not.
C31_Witness ==
    /\ clients[1].pc = "piped" /\ clients[1].member
    /\ clients[2].pc = "readLine" /\ clients[2].member
    /\ clients[3].claimed /\ clients[3].closed /\ ~clients[3].member
    /\ Size(reverseConnections) = POOL_SIZE

(***************************************************************************)
(* C32.  The refresh cycle in the modes without UPnP.                      *)
(***************************************************************************)
NoUpnpModes == {"Router Forward", "Disabled"}

CycleBegins(i) ==
    /\ procs[i].pc = "idle"
    /\ started' = started + 1
    /\ procs'[i].pc = "idle" \/ procs'[i].root = "rpf"
    /\ registrationId' = registrationId

\* C32: a refresh cycle that finds the mode Router Forward or Disabled issues no
\* UPnP mapping request: its first step either ends it (port 443 in the Router
\* Forward mode, or nothing to register) or leaves it in updatePortForward, and a
\* call asks for the local address only as the first step of a cycle that found
\* the UPNP mode, and for a mapping only once it has that address.
C32_NoMappingRequest ==
    /\ [][\A i \in Procs :
             CycleBegins(i) /\ values.forwardingMode \in NoUpnpModes =>
                \/ procs'[i] = Idle
                \/ /\ procs'[i].op = "upf"
                   /\ procs'[i].pc \in {"upf_ip", "upf_duck", "upf_regid"}]_vars
    /\ [][\A i \in Procs :
             procs[i].pc # "rpf_addr" /\ procs'[i].pc = "rpf_addr" =>
                /\ procs[i].pc = "idle"
                /\ values.forwardingMode = "UPNP"]_vars
    /\ [][\A i \in Procs : MappingRequested(i) => procs[i].pc = "rpf_addr"]_vars
    /\ [](\A i \in Procs : procs[i].op = "upf" => procs[i].pc \notin {"rpf_addr", "rpf_map"})

\* The mode was put to Router Forward or Disabled, the only cycle since is the one
\* the settings timer started, and it is registering.
C32_Witness ==
    /\ debounce.triggers = 1
    /\ debounce.put.forwardingMode \in NoUpnpModes
    /\ values.forwardingMode = debounce.put.forwardingMode
    /\ started = 1 /\ debounce.runs = 1
    /\ \E i \in Procs : procs[i].root = "rpf" /\ procs[i].pc = "reg_wait"

\* A cycle that found the UPNP mode is still awaiting its mapping after the mode
\* was put to Router Forward.
C32_WitnessInFlight ==
    /\ values.forwardingMode = "Router Forward"
    /\ \E i \in Procs : procs[i].pc = "rpf_map"

(***************************************************************************)
(* C33 as stated.  In the UPNP mode a registration request that carries a  *)
(* port is sent, by whatever call, only when the mapping request for that  *)
(* port has succeeded before.                                              *)
(***************************************************************************)
RegistrationSent(i) == procs[i].pc # "reg_wait" /\ procs'[i].pc = "reg_wait"

C33_WitnessRegister ==
    /\ values.forwardingMode = "UPNP"
    /\ mapped = {} /\ ~mapFailed
    /\ \E i \in Procs : /\ procs[i].root = "reg"
                        /\ procs[i].pc = "reg_wait"
                        /\ procs[i].authPort = 40000

\* The announcement of the addresses after a change of the tunnel has sent one
\* after the mapping request failed.
C33_WitnessAnnounce ==
    /\ values.forwardingMode = "UPNP"
    /\ mapped = {} /\ mapFailed
    /\ \E i \in Procs : /\ procs[i].root = "upf"
                        /\ procs[i].pc = "reg_wait"
                        /\ procs[i].authPort = 40000

(***************************************************************************)
(* C34 as stated.  The children of the supervisor that are known to be     *)
(* alive: those of earlier start attempts that have not exited, and the    *)
(* one of the current attempt once it has written a line or has given its  *)
(* URL, until it exits.  There is never more than one.                     *)
(***************************************************************************)
CurrentChildAlive ==
    /\ ~cloudflared.exited
    /\ \/ cloudflared.pc = "running"
       \/ cloudflared.pc = "starting" /\ cloudflared.lines > 0

ChildrenAlive == cloudflared.orphans + (IF CurrentChildAlive THEN 1 ELSE 0)

C34_OneChild == ChildrenAlive <= 1

\* A start attempt leaves its child behind only when its Deferred was resolved with
\* undefined by a line of the child that is still running; an attempt that ended
\* with the exit of its child, or before it had one, leaves none.
C34_OrphanOnlyByConfig ==
    [][cloudflared'.orphans > cloudflared.orphans =>
          /\ cloudflared.pc = "starting"
          /\ cloudflared.lines > 0
          /\ ~cloudflared.exited
          /\ cloudflared.deferred = [settled |-> TRUE, value |-> ""]
          /\ cloudflared'.attempts = cloudflared.attempts + 1]_vars

\* The child of the second start attempt has given its URL while the child of the
\* first is still running.
C34_TwoChildren ==
    /\ cloudflared.pc = "running"
    /\ cloudflared.attempts = 2
    /\ cloudflared.orphans = 1

(***************************************************************************)
(* C35 as stated.  No scope call is started for a path while another call  *)
(* for that path awaits its answer, no scope call is started for a path    *)
(* that has an entry in the cache, and a conversion that gets the answer   *)
(* of its scope call when the path has an entry returns the URL of that    *)
(* entry, which is the URL the conversion that stored it returned.         *)
(***************************************************************************)
C35_OneScopeCall ==
    [][/\ \A c \in Conversions :
             ScopeCallStarted(c) =>
                /\ whitelisted[conversions'[c].path] = NoUrl
                /\ \A d \in Conversions \ {c} :
                      ~(/\ conversions[d].pc = "scope"
                        /\ conversions[d].path = conversions'[c].path)
       /\ (/\ lastConv'.tick # lastConv.tick
           /\ lastConv'.kind = "fetched"
           /\ whitelisted[lastConv'.path] # NoUrl)
          => lastConv'.url = whitelisted[lastConv'.path]]_vars

\* A scope call is started only for a path that has no entry in the cache; the
\* calls in progress are not looked at.
C35_ScopeCallOnMiss ==
    [][\A c \in Conversions :
          ScopeCallStarted(c) =>
             /\ whitelisted[conversions'[c].path] = NoUrl
             /\ getSSLHostname(values, cloudflareTunnel) = NoHost
             /\ values.token_info # ""]_vars

\* Two conversions of the same path both await the answer of their own scope call.
C35_WitnessOverlap ==
    /\ conversions[1].pc = "scope"
    /\ conversions[2].pc = "scope"
    /\ conversions[1].path = conversions[2].path

(***************************************************************************)
(* C36 as stated.  The URL a whitelist() call returns has the host and the *)
(* path prefix of the baseUrl the call was given.                          *)
(***************************************************************************)
WhitelistReturned ==
    /\ lastConv'.tick # lastConv.tick
    /\ lastConv'.kind \in {"direct", "cached", "fetched"}

StartsWith(url, base) == url.host = base.host /\ url.prefix = base.prefix

C36_BaseOfStoringCall ==
    [][/\ WhitelistReturned /\ lastConv'.kind # "cached" =>
             /\ StartsWith(lastConv'.url, lastConv'.base)
             /\ lastConv'.url.path = lastConv'.path
       /\ WhitelistReturned /\ lastConv'.kind = "cached" =>
             lastConv'.url = whitelisted[lastConv'.path]
       /\ \A p \in Paths :
             whitelisted'[p] # whitelisted[p] =>
                /\ lastConv'.kind = "fetched"
                /\ whitelisted'[p] = lastConv'.url]_vars

\* The local-URL converter returned, for the path of a push endpoint, the entry that
\* the push converter had stored: a URL under the cloud-message path.
C36_WitnessOtherBase ==
    /\ lastConv.kind = "cached"
    /\ lastConv.path = "/push/a"
    /\ lastConv.base.prefix = ""
    /\ lastConv.url.prefix = SCRYPTED_CLOUD_MESSAGE_PATH

(***************************************************************************)
(* C37.  The throttle of the callback messages.                            *)
(***************************************************************************)
CallbackArrived == PoolEventIs("ignored") \/ PoolEventIs("accepted")

\* C37: a callback message that arrives less than 5 seconds after the last accepted
\* one is ignored: it changes neither the count of accepted messages nor the pool
\* and no connection is opened for it; one that arrives later is accepted and
\* starts the 5 seconds anew.  Every accepted message opens one mux connection
\* once the registration id is known, no connection is opened otherwise, the first
\* write to it is the registration id and a line feed, and the same step tops the
\* pool up to its full size.
C37_Throttled ==
    /\ [][CallbackArrived =>
             IF callback.throttled
             THEN /\ poolLast'.event = "ignored"
                  /\ callback' = callback
                  /\ reverseConnections' = reverseConnections
             ELSE /\ poolLast'.event = "accepted"
                  /\ callback'.accepted = callback.accepted + 1
                  /\ callback'.pending = callback.pending + 1
                  /\ callback'.mux = callback.mux
                  /\ callback'.throttled]_vars
    /\ [](callback.accepted = callback.mux + callback.pending)
    /\ [][callback'.mux # callback.mux =>
             /\ callback'.mux = callback.mux + 1
             /\ callback'.pending = callback.pending - 1
             /\ callback'.wrote = registrationId \o "\n"
             /\ PoolEventIs("callback")
             /\ Size(reverseConnections') = POOL_SIZE]_vars
    /\ [][callback'.throttled /\ ~callback.throttled => PoolEventIs("accepted")]_vars

\* One callback message was accepted and its mux connection opened; the message that
\* came within the next 5 seconds was ignored.
C37_Witness ==
    /\ poolLast.event = "ignored"
    /\ callback.throttled
    /\ callback.accepted = 1 /\ callback.mux = 1 /\ callback.pending = 0
    /\ callback.wrote = "r1\n"
    /\ Size(reverseConnections) = POOL_SIZE

(***************************************************************************)
(* C38.  The registration and the first refresh cycle of the startup.      *)
(***************************************************************************)
RegistrationIdResolves == ~boot.regId /\ boot'.regId

StartupRegistered == boot'.sent = boot.sent + 1

\* C38: when this.manager.registrationId resolves and the constructor did not take
\* the token of the environment, sendRegistrationId is called for the id, without
\* force, exactly when the id differs from lastPersistedRegistrationId; when the
\* constructor took the token of the environment (there was one, and no token was
\* stored) it is called with force = true whatever was persisted, and the token of
\* the environment is the stored token from then on.  The startup registers at no
\* other moment.  observeRegistrations() runs only once the listeners are up (and,
\* with the token of the environment, once the forced registration was made): until
\* then no refresh cycle is started and no call other than the registration of the
\* startup.
C38_Startup ==
    /\ [][RegistrationIdResolves =>
             /\ StartupRegistered <=>
                   (boot.env \/ values.lastPersistedRegistrationId # registrationId)
             /\ StartupRegistered =>
                   /\ started' = started + 1
                   /\ boot'.forced = boot.env
                   /\ \/ \E i \in Procs : /\ procs[i].pc = "idle"
                                          /\ procs'[i].pc = "reg_wait"
                                          /\ procs'[i].root = "reg"
                                          /\ procs'[i].regId = registrationId
                      \/ /\ regOutcome'.tick # regOutcome.tick
                         /\ regOutcome'.regId = registrationId
             /\ ~StartupRegistered => procs' = procs /\ started' = started]_vars
    /\ [][boot'.sent # boot.sent => RegistrationIdResolves /\ StartupRegistered]_vars
    /\ [](boot.env => values.token_info = "envtoken")
    /\ [](boot.observing => boot.proxy /\ (boot.env => boot.regId /\ boot.sent = 1))
    /\ [](\A i \in Procs : procs[i].root = "rpf" => boot.observing)
    /\ [][started' # started /\ ~RegistrationIdResolves =>
             boot.proxy /\ boot'.observing]_vars

\* The token of the environment was taken, the forced registration was sent, and
\* the first refresh cycle is in progress with the listeners up.
C38_Witness ==
    /\ boot.env /\ boot.forced /\ boot.sent = 1
    /\ boot.proxy /\ boot.observing
    /\ \E i \in Procs : procs[i].root = "rpf" /\ procs[i].pc # "idle"

\* The id was the persisted one: no registration was sent at startup.
C38_WitnessUnchanged ==
    /\ ~boot.env /\ boot.regId /\ boot.sent = 0
    /\ values.lastPersistedRegistrationId = registrationId
    /\ started = 0

\* The id differed from the persisted one: it was registered, without force, before
\* the listeners were up.
C38_WitnessChanged ==
    /\ ~boot.env /\ boot.sent = 1 /\ ~boot.forced
    /\ ~boot.proxy
    /\ \E i \in Procs : procs[i].pc = "reg_wait" /\ procs[i].regId = registrationId

(***************************************************************************)
(* C39.  The heater and the cooler after a run of updateState().           *)
(***************************************************************************)
\* What a device is once it has carried out the commands sent to it.
SwitchedOn(d) ==
    IF thermostat.queue[d] = <<>> THEN thermostat.on[d]
    ELSE thermostat.queue[d][Len(thermostat.queue[d])]

BothOn == SwitchedOn("heater") /\ SwitchedOn("cooler")

\* The commands that the last run of updateState() sent to a device.
Commands(d) ==
    {i \in DOMAIN thermostat.log : thermostat.log[i] \in {d \o ".turnOn", d \o ".turnOff"}}

\* The last run of updateState() read the on properties with no command on its way:
\* the devices had carried out all that was sent to them.
ReadSettled == \A d \in Devices : Len(thermostat.queue[d]) = Cardinality(Commands(d))

\* C39: after any sequence of temperature events, setpoint changes and mode changes,
\* in every mode, a run of updateState() never leaves the heater and the cooler both
\* switched on.
C39_NeverBothOn == thermostat.ran => ~BothOn

\* The cooler runs in HeatCool mode, the temperature falls below the low setpoint
\* and updateState() switches the heater on: manageSetpoint() was given null for
\* the other device, so the cooler that had carried out every command stays on.
C39_BothOnInHeatCool ==
    /\ thermostat.ran
    /\ thermostat.thermostatMode = "HeatCool"
    /\ thermostat.cause = "temperature"
    /\ thermostat.log = <<"setState", "heater.turnOn">>
    /\ thermostat.on["cooler"] /\ thermostat.queue["cooler"] = <<>>
    /\ ReadSettled

\* In the modes Off, Heat and Cool a run of updateState() that read settled devices
\* and reached its commands leaves at most one of them switched on.
C39_SingleModes ==
    /\ thermostat.ran
    /\ ReadSettled
    /\ thermostat.thermostatMode \in {"", "Off", "Heat", "Cool"}
    /\ "setState" \in {thermostat.log[i] : i \in DOMAIN thermostat.log}
    => ~BothOn

(***************************************************************************)
(* C40.  The order of setState() and of the commands in updateState().     *)
(***************************************************************************)
\* In the last run of updateState() every command was sent after the state was
\* stored.
StateStoredFirst ==
    \A i \in DOMAIN thermostat.log :
        thermostat.log[i] # "setState" =>
            \E j \in 1..(i - 1) : thermostat.log[j] = "setState"

\* manageEvent() took the last OnOff event for manual input: it called
\* setThermostatMode().
TakenForManualInput == thermostat.cause = "event" /\ thermostat.ran

\* An OnOff event is handled and the mode of the thermostat is another one after it.
EventChangesMode ==
    /\ thermostat'.cause = "event"
    /\ thermostat'.queue # thermostat.queue
    /\ thermostat'.thermostatMode # thermostat.thermostatMode

\* C40: in every run of updateState() the new thermostatState is stored before any
\* turnOn or turnOff command is sent to the heater or the cooler; manageEvent()
\* never takes an OnOff event that a command of the thermostat caused for manual
\* input, and such an event never changes the mode (every OnOff event of this model
\* is caused by a command of the thermostat).
C40_StateBeforeCommands ==
    /\ [](thermostat.ran => StateStoredFirst)
    /\ [](~TakenForManualInput)
    /\ [][~EventChangesMode]_vars

\* Cool mode is chosen while the heater is on: manageSetpoint() sends the turnOff
\* of the heater before it stores the state.
C40_OtherOffBeforeState ==
    /\ thermostat.ran
    /\ thermostat.thermostatMode = "Cool"
    /\ thermostat.log = <<"heater.turnOff", "setState", "cooler.turnOn">>

\* The heater reports that it is on when the state is no longer Heating:
\* manageEvent() calls setThermostatMode('On').
C40_OwnEventTaken ==
    /\ TakenForManualInput
    /\ thermostat.thermostatMode = "Heat"
    /\ thermostat.thermostatState = "Heating"
    /\ thermostat.on["heater"]

\* The only command that a run of updateState() sends before it stores the state is
\* the turnOff of the other device in manageSetpoint() (lines 175-177), in the
\* modes Heat and Cool; the commands to the device that the mode drives and the
\* commands of allOff() follow the stored state.
C40_OnlyOtherOffFirst ==
    thermostat.ran =>
        \A i \in DOMAIN thermostat.log :
            (\A j \in 1..i : thermostat.log[j] # "setState") =>
                /\ i = 1
                /\ \/ thermostat.thermostatMode = "Heat"
                      /\ thermostat.log[i] = "cooler.turnOff"
                   \/ thermostat.thermostatMode = "Cool"
                      /\ thermostat.log[i] = "heater.turnOff"

====
